---- MODULE Spec2Model ----
(***************************************************************************)
(* Model of the GoldAssayTracker store (src/database.py and                *)
(* src/init_sample_data.py): the assayers, assay_results and               *)
(* benchmark_assayers tables of gold_assay.db, the operations that write   *)
(* them and the benchmark-deviation queries that read them; the Mass       *)
(* Impact page (src/pages/10_Mass_Impact_Analysis.py), the moving-average  *)
(* computations (src/utils.py, src/ai_assistant.py), the trainee           *)
(* certification tables and status recomputation                           *)
(* (src/database_trainee.py), the narrative functions and the chat answer  *)
(* that request a language model (src/ai_assistant.py,                     *)
(* src/claude_assistant.py, src/openai_assistant.py,                       *)
(* src/deepseek_assistant.py, src/ai_chat.py) and the inter-laboratory     *)
(* tables and comparison query (src/database_interlab.py).                 *)
(*                                                                         *)
(* Every function opens its own sqlite3 connection.  A write transaction   *)
(* (from its first INSERT/UPDATE/DELETE to conn.commit()) holds SQLite's   *)
(* database write lock, so it is one atomic step here; a SELECT issued     *)
(* before the first write runs outside that transaction, so a function     *)
(* that reads, decides and then writes takes two steps, and other          *)
(* sessions may commit between them.                                       *)
(*                                                                         *)
(* gold_content is kept in tenths of ppt, test_date in whole days,         *)
(* bar_weight_grams in grams, deviation_ppt and the certification          *)
(* thresholds in tenths of ppt.                                            *)
(***************************************************************************)
EXTENDS Integers, FiniteSets, Sequences, TLC

\* ------------------------------------------------- bounds on the counters
MaxAssayerId == 3
MaxResultId == 3
MaxBenchmarkId == 3
MaxEvaluationId == 3
MaxThresholdId == 2
MaxLabId == 3
FurtherInserts == 24

Sessions == {1, 2}
AssayerIds == 1..MaxAssayerId
SampleIds == {1, 2}
GoldValues == {9945, 9950}
BarWeights == {0, 1000}
Today == 100
TestDates == {Today - 40, Today}
LookbackDays == {30}

\* init_sample_data scaled down: the first two of its five assayers (the
\* first one is the benchmark) and the first of its thirty sample ids
SampleAssayers == <<"JS001", "MG002">>
FirstSampleId == CHOOSE sid \in SampleIds : \A other \in SampleIds : sid <= other
\* employee_id values typed into the registration form
EmployeeIds == {"JS001", "X100"}

VARIABLES assayers, assay_results, benchmark_assayers, seq, pc, loc, last,
          trainees, trainee_evaluations, certification_thresholds,
          external_labs, interlab_results, interlab_comparisons
vars == <<assayers, assay_results, benchmark_assayers, seq, pc, loc, last,
          trainees, trainee_evaluations, certification_thresholds,
          external_labs, interlab_results, interlab_comparisons>>
\* the tables of src/database_trainee.py
trainee_tables == <<trainees, trainee_evaluations, certification_thresholds>>
\* the tables of src/database_interlab.py
interlab_tables == <<external_labs, interlab_results, interlab_comparisons>>

\* ------------------------------------------------------------ the tables
\* assayers(assayer_id AUTOINCREMENT, employee_id UNIQUE, is_active)
AssayerRow(id, emp, act) == [assayer_id |-> id, employee_id |-> emp, is_active |-> act]
\* assay_results(result_id AUTOINCREMENT, ..., UNIQUE(assayer_id, sample_id))
ResultRow(rid, a, sid, g, d, w) ==
    [result_id |-> rid, assayer_id |-> a, sample_id |-> sid, gold_content |-> g,
     test_date |-> d, bar_weight_grams |-> w]
\* benchmark_assayers(id AUTOINCREMENT, assayer_id, is_active)
BenchmarkRow(id, a, act) == [id |-> id, assayer_id |-> a, is_active |-> act]

ActiveBenchmarks == {b \in benchmark_assayers : b.is_active = 1}
ActiveBenchmarkIds == {b.assayer_id : b \in ActiveBenchmarks}
ActiveAssayers == {a \in assayers : a.is_active = 1}

Abs(x) == IF x < 0 THEN -x ELSE x

\* a session's locals between two statements of one function
NoLoc == [arg |-> 0, days |-> 0]
\* the call that returned last: its name, argument, return value ("True",
\* "False", "None", "DataFrame", "raised") and, for a query, the rows returned,
\* the benchmark_id it used and the days it was given; pre records what the
\* call found: the number of active benchmark rows (set_benchmark_assayer),
\* the number of rows already stored for the pair (add_assay_result)
Done(op, arg, ret) ==
    [op |-> op, arg |-> arg, ret |-> ret, rows |-> {}, bench |-> 0, days |-> 0, pre |-> 0]

\* external_labs(lab_id AUTOINCREMENT, is_active DEFAULT 1, is_benchmark DEFAULT 0)
LabRow(id, act, bench) == [lab_id |-> id, is_active |-> act, is_benchmark |-> bench]
\* interlab_results(result_id AUTOINCREMENT, lab_id, sample_id, gold_content,
\* test_date, UNIQUE(lab_id, sample_id))
InterlabResultRow(id, lab, sid, g, d) ==
    [result_id |-> id, lab_id |-> lab, sample_id |-> sid, gold_content |-> g, test_date |-> d]
\* interlab_comparisons(comparison_id AUTOINCREMENT, internal_sample_id,
\* external_sample_id, comparison_date DEFAULT CURRENT_TIMESTAMP,
\* UNIQUE(internal_sample_id, external_sample_id))
ComparisonRow(id, internal, external, d) ==
    [comparison_id |-> id, internal_sample_id |-> internal,
     external_sample_id |-> external, comparison_date |-> d]

\* init_interlab_db creates the three tables empty
init_interlab_db ==
    /\ external_labs = {}
    /\ interlab_results = {}
    /\ interlab_comparisons = {}

\* certification_thresholds(threshold_id AUTOINCREMENT, min_samples,
\* min_accuracy_percentage, max_std_deviation, max_avg_deviation, is_active);
\* the deviations are in tenths of ppt
ThresholdRow(id, ms, pct, sd, avg, act) ==
    [threshold_id |-> id, min_samples |-> ms, min_accuracy_percentage |-> pct,
     max_std_deviation |-> sd, max_avg_deviation |-> avg, is_active |-> act]

\* init_trainee_db: the three tables, empty but for the default thresholds
\* (20 samples, 85 %, 0.5 ppt, 0.2 ppt)
init_trainee_db ==
    /\ trainees = {}
    /\ trainee_evaluations = {}
    /\ certification_thresholds = {ThresholdRow(1, 20, 85, 5, 2, 1)}

Init ==
    /\ assayers = {}
    /\ assay_results = {}
    /\ benchmark_assayers = {}
    /\ seq = [assayers |-> 1, assay_results |-> 1, benchmark_assayers |-> 1]
    /\ pc = [s \in Sessions |-> "idle"]
    /\ loc = [s \in Sessions |-> NoLoc]
    /\ last = Done("init_db", 0, "None")
    /\ init_trainee_db
    /\ init_interlab_db

\* ------------------------------------------------------------- assayers
add_assayer(emp) ==
    /\ seq.assayers <= MaxAssayerId
    /\ IF \E a \in assayers : a.employee_id = emp
         THEN /\ last' = Done("add_assayer", 0, "False")
              /\ UNCHANGED <<assayers, seq>>
         ELSE /\ assayers' = assayers \cup {AssayerRow(seq.assayers, emp, 1)}
              /\ seq' = [seq EXCEPT !.assayers = @ + 1]
              /\ last' = Done("add_assayer", seq.assayers, "True")
    /\ UNCHANGED <<assay_results, benchmark_assayers, pc, loc>>
    /\ UNCHANGED trainee_tables
    /\ UNCHANGED interlab_tables

\* delete_assayer, lines 148-154: the benchmark check
delete_assayer_check(s, id) ==
    /\ pc[s] = "idle"
    /\ IF \E b \in benchmark_assayers : b.assayer_id = id /\ b.is_active = 1
         THEN /\ last' = Done("delete_assayer", id, "False")
              /\ UNCHANGED <<pc, loc>>
         ELSE /\ pc' = [pc EXCEPT ![s] = "delete_assayer"]
              /\ loc' = [loc EXCEPT ![s] = [arg |-> id, days |-> 0]]
              /\ UNCHANGED last
    /\ UNCHANGED <<assayers, assay_results, benchmark_assayers, seq>>
    /\ UNCHANGED trainee_tables
    /\ UNCHANGED interlab_tables

\* delete_assayer, lines 156-169: the soft delete
delete_assayer_update(s) ==
    /\ pc[s] = "delete_assayer"
    /\ assayers' = {IF a.assayer_id = loc[s].arg THEN [a EXCEPT !.is_active = 0] ELSE a
                      : a \in assayers}
    /\ pc' = [pc EXCEPT ![s] = "idle"]
    /\ loc' = [loc EXCEPT ![s] = NoLoc]
    /\ last' = Done("delete_assayer", loc[s].arg, "True")
    /\ UNCHANGED <<assay_results, benchmark_assayers, seq>>
    /\ UNCHANGED trainee_tables
    /\ UNCHANGED interlab_tables

\* ---------------------------------------------------------- assay results
\* faulty variant: a plain insert with no conflict handling
InsertKeepingOld(rows, rid, a, sid, g, d, w) ==
    rows \cup {ResultRow(rid, a, sid, g, d, w)}

\* INSERT OR REPLACE: a row that conflicts on UNIQUE(assayer_id, sample_id) is
\* deleted and the new row gets the next AUTOINCREMENT result_id
InsertOrReplace(rows, rid, a, sid, g, d, w) ==
    {r \in rows : ~(r.assayer_id = a /\ r.sample_id = sid)}
        \cup {ResultRow(rid, a, sid, g, d, w)}

add_assay_result(a, sid, g, d, w) ==
    /\ seq.assay_results <= MaxResultId
    /\ assay_results' = InsertOrReplace(assay_results, seq.assay_results, a, sid, g, d, w)
    /\ seq' = [seq EXCEPT !.assay_results = @ + 1]
    /\ last' = [Done("add_assay_result", seq.assay_results, "True") EXCEPT
                   !.pre = Cardinality({r \in assay_results :
                                           r.assayer_id = a /\ r.sample_id = sid})]
    /\ UNCHANGED <<assayers, benchmark_assayers, pc, loc>>
    /\ UNCHANGED trainee_tables
    /\ UNCHANGED interlab_tables

\* bar_weight_grams = None leaves the stored weight alone
\* (setw = FALSE models the default bar_weight_grams=None); a result_id that
\* matches no row updates nothing and still reports success
update_assay_result(rid, g, setw, w) ==
    /\ assay_results' =
         {IF r.result_id = rid
            THEN [r EXCEPT !.gold_content = g,
                           !.bar_weight_grams = IF setw THEN w ELSE @]
            ELSE r : r \in assay_results}
    /\ last' = Done("update_assay_result", rid, "True")
    /\ UNCHANGED <<assayers, benchmark_assayers, seq, pc, loc>>
    /\ UNCHANGED trainee_tables
    /\ UNCHANGED interlab_tables

\* delete_assay_result, lines 263-274: is the result one of the benchmark's?
IsBenchmarkResult(rid) ==
    \E r \in assay_results, b \in benchmark_assayers :
        r.result_id = rid /\ r.assayer_id = b.assayer_id /\ b.is_active = 1

delete_assay_result_check(s, rid) ==
    /\ pc[s] = "idle"
    /\ IF IsBenchmarkResult(rid)
         THEN /\ last' = Done("delete_assay_result", rid, "False")
              /\ UNCHANGED <<pc, loc>>
         ELSE /\ pc' = [pc EXCEPT ![s] = "delete_assay_result"]
              /\ loc' = [loc EXCEPT ![s] = [arg |-> rid, days |-> 0]]
              /\ UNCHANGED last
    /\ UNCHANGED <<assayers, assay_results, benchmark_assayers, seq>>
    /\ UNCHANGED trainee_tables
    /\ UNCHANGED interlab_tables

\* delete_assay_result, lines 276-288
delete_assay_result_delete(s) ==
    /\ pc[s] = "delete_assay_result"
    /\ assay_results' = {r \in assay_results : r.result_id # loc[s].arg}
    /\ pc' = [pc EXCEPT ![s] = "idle"]
    /\ loc' = [loc EXCEPT ![s] = NoLoc]
    /\ last' = Done("delete_assay_result", loc[s].arg, "True")
    /\ UNCHANGED <<assayers, benchmark_assayers, seq>>
    /\ UNCHANGED trainee_tables
    /\ UNCHANGED interlab_tables

\* ------------------------------------------------------------- benchmark
\* faulty variant: the UPDATE that deactivates the previous benchmarks is dropped
DeactivateNone(rows) == rows

\* UPDATE benchmark_assayers SET is_active = 0
DeactivateAll(rows) == {[b EXCEPT !.is_active = 0] : b \in rows}

\* one transaction: deactivate every row, insert the new active row, commit
set_benchmark_assayer(id) ==
    /\ seq.benchmark_assayers <= MaxBenchmarkId
    /\ benchmark_assayers' =
         DeactivateAll(benchmark_assayers) \cup {BenchmarkRow(seq.benchmark_assayers, id, 1)}
    /\ seq' = [seq EXCEPT !.benchmark_assayers = @ + 1]
    /\ last' = [Done("set_benchmark_assayer", id, "True") EXCEPT
                   !.pre = Cardinality(ActiveBenchmarks)]
    /\ UNCHANGED <<assayers, assay_results, pc, loc>>
    /\ UNCHANGED trainee_tables
    /\ UNCHANGED interlab_tables

\* ------------------------------------------------------ init_sample_data
\* lines 13-20: nothing to do when an active assayer exists
init_sample_data_check(s) ==
    /\ pc[s] = "idle"
    /\ IF Cardinality(ActiveAssayers) > 0
         THEN /\ last' = Done("init_sample_data", 0, "None")
              /\ UNCHANGED pc
         ELSE /\ pc' = [pc EXCEPT ![s] = "init_clear"]
              /\ UNCHANGED last
    /\ UNCHANGED <<assayers, assay_results, benchmark_assayers, seq, loc>>
    /\ UNCHANGED trainee_tables
    /\ UNCHANGED interlab_tables

\* lines 25-28: the three DELETEs and their commit
init_sample_data_clear(s) ==
    /\ pc[s] = "init_clear"
    /\ assay_results' = {}
    /\ benchmark_assayers' = {}
    /\ assayers' = {}
    /\ pc' = [pc EXCEPT ![s] = "init_populate"]
    /\ last' = Done("init_sample_data_clear", 0, "")
    /\ UNCHANGED <<seq, loc>>
    /\ UNCHANGED trainee_tables
    /\ UNCHANGED interlab_tables

\* the rows of lines 41-46, with the AUTOINCREMENT ids they get
SampleAssayerRows ==
    {AssayerRow(seq.assayers + i - 1, SampleAssayers[i], 1) : i \in 1..Len(SampleAssayers)}
JohnSmith == seq.assayers
OtherSampleAssayers == {seq.assayers + i - 1 : i \in 2..Len(SampleAssayers)}

\* lines 65-109: one benchmark reading per sample id and, for every other
\* assayer, a reading within 5.0 ppt of it for the sample ids it tests; plain
\* INSERTs, dated within the last 30 days, bar weight left at its default 0
SampleResultRows(bg, og) ==
    {ResultRow(seq.assay_results, JohnSmith, FirstSampleId, bg, Today, 0)}
      \cup {ResultRow(seq.assay_results + (a - JohnSmith), a, FirstSampleId, og, Today, 0)
              : a \in OtherSampleAssayers}

\* lines 30-111, one transaction; an IntegrityError (employee_id or
\* (assayer_id, sample_id) already present) is not caught: nothing is committed
init_sample_data_populate(s, bg, og) ==
    /\ pc[s] = "init_populate"
    /\ seq.assayers + Len(SampleAssayers) - 1 <= MaxAssayerId
    /\ seq.assay_results + Len(SampleAssayers) - 1 <= MaxResultId
    /\ seq.benchmark_assayers <= MaxBenchmarkId
    /\ Abs(og - bg) <= 50
    /\ IF \/ \E a \in assayers, n \in SampleAssayerRows : a.employee_id = n.employee_id
          \/ \E r \in assay_results, n \in SampleResultRows(bg, og) :
                r.assayer_id = n.assayer_id /\ r.sample_id = n.sample_id
         THEN /\ last' = Done("init_sample_data", 0, "raised")
              /\ UNCHANGED <<assayers, assay_results, benchmark_assayers, seq>>
         ELSE /\ assayers' = assayers \cup SampleAssayerRows
              /\ benchmark_assayers' =
                   benchmark_assayers \cup {BenchmarkRow(seq.benchmark_assayers, JohnSmith, 1)}
              /\ assay_results' = assay_results \cup SampleResultRows(bg, og)
              /\ seq' = [assayers |-> seq.assayers + Len(SampleAssayers),
                         assay_results |-> seq.assay_results + Len(SampleAssayers),
                         benchmark_assayers |-> seq.benchmark_assayers + 1]
              /\ last' = Done("init_sample_data", JohnSmith, "None")
    /\ pc' = [pc EXCEPT ![s] = "idle"]
    /\ UNCHANGED loc
    /\ UNCHANGED trainee_tables
    /\ UNCHANGED interlab_tables

\* ---------------------------------------------------------------- queries
\* the columns of one joined row (lines 440-444)
DeviationRow(r, b) ==
    [result_id |-> r.result_id, assayer_id |-> r.assayer_id, sample_id |-> r.sample_id,
     gold_content |-> r.gold_content, test_date |-> r.test_date,
     benchmark_value |-> b.gold_content,
     deviation |-> r.gold_content - b.gold_content,
     absolute_deviation |-> Abs(r.gold_content - b.gold_content)]

\* faulty variant: the subtraction the other way round
DeviationRowsReversed(benchmark_id) ==
    {[DeviationRow(rb[1], rb[2]) EXCEPT !.deviation = rb[2].gold_content - rb[1].gold_content]
       : rb \in {rb \in assay_results \X assay_results :
                    /\ \E a \in assayers : a.assayer_id = rb[1].assayer_id
                    /\ rb[1].sample_id = rb[2].sample_id
                    /\ rb[2].assayer_id = benchmark_id
                    /\ rb[1].assayer_id # benchmark_id}}

\* faulty variant: the WHERE r.assayer_id != benchmark_id is dropped
DeviationRowsWithBenchmark(benchmark_id) ==
    {DeviationRow(rb[1], rb[2])
       : rb \in {rb \in assay_results \X assay_results :
                    /\ \E a \in assayers : a.assayer_id = rb[1].assayer_id
                    /\ rb[1].sample_id = rb[2].sample_id
                    /\ rb[2].assayer_id = benchmark_id}}

\* the SELECT of lines 439-450: r joined to assayers and to the benchmark's
\* reading b of the same sample; no condition on r.test_date
DeviationRows(benchmark_id) ==
    {DeviationRow(rb[1], rb[2])
       : rb \in {rb \in assay_results \X assay_results :
                    /\ \E a \in assayers : a.assayer_id = rb[1].assayer_id
                    /\ rb[1].sample_id = rb[2].sample_id
                    /\ rb[2].assayer_id = benchmark_id
                    /\ rb[1].assayer_id # benchmark_id}}

\* faulty variant: no benchmark is answered with an empty DataFrame instead of None
get_deviations_benchmark_empty(s, days) ==
    /\ pc[s] = "idle"
    /\ IF ActiveBenchmarks = {}
         THEN /\ last' = [Done("get_deviations_from_benchmark", 0, "DataFrame") EXCEPT !.days = days]
              /\ UNCHANGED <<pc, loc>>
         ELSE /\ \E b \in ActiveBenchmarks :
                    loc' = [loc EXCEPT ![s] = [arg |-> b.assayer_id, days |-> days]]
              /\ pc' = [pc EXCEPT ![s] = "get_deviations"]
              /\ UNCHANGED last
    /\ UNCHANGED <<assayers, assay_results, benchmark_assayers, seq>>
    /\ UNCHANGED trainee_tables
    /\ UNCHANGED interlab_tables

\* lines 425-431: SELECT ... WHERE is_active = 1 LIMIT 1, no ORDER BY: any
\* active row may be the one returned
get_deviations_benchmark(s, days) ==
    /\ pc[s] = "idle"
    /\ IF ActiveBenchmarks = {}
         THEN /\ last' = [Done("get_deviations_from_benchmark", 0, "None") EXCEPT !.days = days]
              /\ UNCHANGED <<pc, loc>>
         ELSE /\ \E b \in ActiveBenchmarks :
                    loc' = [loc EXCEPT ![s] = [arg |-> b.assayer_id, days |-> days]]
              /\ pc' = [pc EXCEPT ![s] = "get_deviations"]
              /\ UNCHANGED last
    /\ UNCHANGED <<assayers, assay_results, benchmark_assayers, seq>>
    /\ UNCHANGED trainee_tables
    /\ UNCHANGED interlab_tables

\* lines 439-464: an empty result is returned as an empty DataFrame
get_deviations_query(s) ==
    /\ pc[s] = "get_deviations"
    /\ last' = [op |-> "get_deviations_from_benchmark", arg |-> 0, ret |-> "DataFrame",
                rows |-> DeviationRows(loc[s].arg), bench |-> loc[s].arg, days |-> loc[s].days,
                pre |-> 0]
    /\ pc' = [pc EXCEPT ![s] = "idle"]
    /\ loc' = [loc EXCEPT ![s] = NoLoc]
    /\ UNCHANGED <<assayers, assay_results, benchmark_assayers, seq>>
    /\ UNCHANGED trainee_tables
    /\ UNCHANGED interlab_tables

\* get_weighted_mass_impact, lines 867-889 (the "days" branch of the date
\* filter): the comparable records with a recorded bar weight
MassSampleRowsOf(results, benchmark_id, days, min_gold_content) ==
    {[result_id |-> rb[1].result_id, assayer_id |-> rb[1].assayer_id,
      sample_id |-> rb[1].sample_id, gold_content |-> rb[1].gold_content,
      benchmark_gold_content |-> rb[2].gold_content,
      bar_weight_grams |-> rb[1].bar_weight_grams, test_date |-> rb[1].test_date]
       : rb \in {rb \in results \X results :
                    /\ \E a \in assayers : a.assayer_id = rb[1].assayer_id
                    /\ rb[1].sample_id = rb[2].sample_id
                    /\ rb[2].assayer_id = benchmark_id
                    /\ rb[1].assayer_id # benchmark_id
                    /\ rb[1].test_date >= Today - days
                    /\ rb[1].gold_content >= min_gold_content
                    /\ rb[1].bar_weight_grams > 0}}

MassSampleRows(benchmark_id, days, min_gold_content) ==
    MassSampleRowsOf(assay_results, benchmark_id, days, min_gold_content)

\* line 903: fillna(1000).replace(0, 1000)
DefaultBarWeight == 1000
FilledWeight(w) == IF w = 0 THEN DefaultBarWeight ELSE w

\* lines 906-914, in units of 0.0001 g (grams x tenths of ppt)
MassDeviation(m) ==
    FilledWeight(m.bar_weight_grams) * m.gold_content
        - FilledWeight(m.bar_weight_grams) * m.benchmark_gold_content
PositiveDeviation(m) == IF MassDeviation(m) > 0 THEN MassDeviation(m) ELSE 0
NegativeDeviation(m) == Abs(IF MassDeviation(m) < 0 THEN MassDeviation(m) ELSE 0)

\* faulty variant: the positive column is the signed mass deviation, so that a
\* loss cancels a gain in the positive total
ColumnCancelling(m, col) ==
    CASE col = "mass_deviation_g" -> MassDeviation(m)
      [] col = "positive_deviation_g" -> MassDeviation(m)
      [] col = "negative_deviation_g" -> NegativeDeviation(m)

\* the per-sample columns that lines 932-934 sum
Column(m, col) ==
    CASE col = "mass_deviation_g" -> MassDeviation(m)
      [] col = "positive_deviation_g" -> PositiveDeviation(m)
      [] col = "negative_deviation_g" -> NegativeDeviation(m)

RECURSIVE SumColumn(_, _)
SumColumn(samples, col) ==
    IF samples = {} THEN 0
    ELSE LET m == CHOOSE x \in samples : TRUE
         IN Column(m, col) + SumColumn(samples \ {m}, col)

\* lines 967-969: round(2), i.e. to the nearest 0.01 g = 100 units, a tie to
\* the even hundredth
Round2(x) ==
    LET q == x \div 100
        r == x % 100
    IN  IF r < 50 THEN 100 * q
        ELSE IF r > 50 THEN 100 * (q + 1)
        ELSE IF q % 2 = 0 THEN 100 * q ELSE 100 * (q + 1)

\* lines 923-969: groupby assayer, sum, round
MassSummary(samples) ==
    {[assayer_id |-> a,
      sample_count |-> Cardinality({m \in samples : m.assayer_id = a}),
      total_mass_deviation_g |->
          Round2(SumColumn({m \in samples : m.assayer_id = a}, "mass_deviation_g")),
      total_positive_deviation_g |->
          Round2(SumColumn({m \in samples : m.assayer_id = a}, "positive_deviation_g")),
      total_negative_deviation_g |->
          Round2(SumColumn({m \in samples : m.assayer_id = a}, "negative_deviation_g"))]
       : a \in {m.assayer_id : m \in samples}}

\* lines 842-848
get_weighted_mass_impact_benchmark(s, days) ==
    /\ pc[s] = "idle"
    /\ IF ActiveBenchmarks = {}
         THEN /\ last' = [Done("get_weighted_mass_impact", 0, "None") EXCEPT !.days = days]
              /\ UNCHANGED <<pc, loc>>
         ELSE /\ \E b \in ActiveBenchmarks :
                    loc' = [loc EXCEPT ![s] = [arg |-> b.assayer_id, days |-> days]]
              /\ pc' = [pc EXCEPT ![s] = "get_weighted_mass_impact"]
              /\ UNCHANGED last
    /\ UNCHANGED <<assayers, assay_results, benchmark_assayers, seq>>
    /\ UNCHANGED trainee_tables
    /\ UNCHANGED interlab_tables

\* lines 867-974: an empty sample set is returned as an empty DataFrame
get_weighted_mass_impact_query(s) ==
    /\ pc[s] = "get_weighted_mass_impact"
    /\ last' = [op |-> "get_weighted_mass_impact", arg |-> 0, ret |-> "DataFrame",
                rows |-> MassSummary(MassSampleRows(loc[s].arg, loc[s].days, 0)),
                bench |-> loc[s].arg, days |-> loc[s].days, pre |-> 0]
    /\ pc' = [pc EXCEPT ![s] = "idle"]
    /\ loc' = [loc EXCEPT ![s] = NoLoc]
    /\ UNCHANGED <<assayers, assay_results, benchmark_assayers, seq>>
    /\ UNCHANGED trainee_tables
    /\ UNCHANGED interlab_tables

\* ------------------------------------------------- the Mass Impact page
\* pages/10_Mass_Impact_Analysis.py renders the DataFrame that
\* get_weighted_mass_impact returned; a displayed amount is modelled by the
\* prefix the page puts before its absolute value
GoldPrices == {0, 85}

RECURSIVE SumTotals(_, _)
SumTotals(rows, col) ==
    IF rows = {} THEN 0
    ELSE LET row == CHOOSE x \in rows : TRUE
         IN row[col] + SumTotals(rows \ {row}, col)

\* lines 278-289: the "Financial Impact" metric
FinancialImpactMetric(financial_impact) ==
    IF financial_impact > 0 THEN "-$"
    ELSE IF financial_impact < 0 THEN "+$"
    ELSE "$"

\* lines 311 and 325, 356: "Net Financial Impact" and "Net Value Impact"
financial_sign(financial_impact) ==
    IF financial_impact < 0 THEN "+" ELSE IF financial_impact > 0 THEN "-" ELSE ""

\* lines 389-391: the 'Financial Impact (USD)' column of the detail table
FinancialImpactColumn(x) ==
    IF x > 0 THEN "+$" ELSE IF x < 0 THEN "-$" ELSE "$"

\* lines 237-428, for a result that is neither None nor empty: the summary
\* figures (ret: the metric, pre: the net impact line) and the detail table
mass_impact_page(gold_price_per_gram) ==
    /\ last.op = "get_weighted_mass_impact"
    /\ last.ret = "DataFrame"
    /\ last.rows # {}
    /\ LET total_mass_deviation == SumTotals(last.rows, "total_mass_deviation_g")
           financial_impact == total_mass_deviation * gold_price_per_gram
       IN last' = [op |-> "mass_impact_page",
                   arg |-> financial_impact,
                   ret |-> FinancialImpactMetric(financial_impact),
                   pre |-> financial_sign(financial_impact) \o "$",
                   rows |-> {[assayer_id |-> row.assayer_id,
                              net_impact |-> row.total_mass_deviation_g * gold_price_per_gram,
                              financial_impact |->
                                  FinancialImpactColumn(row.total_mass_deviation_g
                                                           * gold_price_per_gram)]
                               : row \in last.rows},
                   bench |-> last.bench, days |-> last.days]
    /\ UNCHANGED <<assayers, assay_results, benchmark_assayers, seq, pc, loc>>
    /\ UNCHANGED trainee_tables
    /\ UNCHANGED interlab_tables

\* ------------------------------------------------- moving-average trends
\* utils.create_moving_average_chart and ai_assistant.analyze_trend_chart work
\* on the DataFrame returned by get_deviations_from_benchmark, here a sequence
\* of rows; a row's pandas Timestamp is its test_date (the day) and its
\* test_time (0: midnight, as the entry pages store a chosen date; 1: a later
\* time of day, as init_sample_data and the test_date default store)
RECURSIVE SumSeq(_, _)
SumSeq(rows, col) ==
    IF rows = <<>> THEN 0 ELSE rows[1][col] + SumSeq(Tail(rows), col)

\* means are kept exact: a mean of n values is in units of 1/MeanScale of its
\* values' unit (exact for n in 1..4 and 6)
MeanScale == 12
Mean(rows, col) == (SumSeq(rows, col) * MeanScale) \div Len(rows)

TicksPerDay == 2
Timestamp(r) == r.test_date * TicksPerDay + r.test_time
\* Timestamp.date()
DateOf(stamp) == stamp \div TicksPerDay

RECURSIVE SortValues(_)
SortValues(keys) ==
    IF keys = {} THEN <<>>
    ELSE LET k == CHOOSE x \in keys : \A y \in keys : x <= y
         IN <<k>> \o SortValues(keys \ {k})

AssayerRows(df, assayer) == SelectSeq(df, LAMBDA r : r.assayer_name = assayer)
AssayerNames(df) == {df[i].assayer_name : i \in DOMAIN df}

\* utils.py line 163 and 188: groupby(['test_date', 'assayer_name']) mean of
\* 'deviation', one point per distinct Timestamp, sorted by test_date
GroupedByTestDate(df, assayer) ==
    LET rows == AssayerRows(df, assayer)
        keys == SortValues({Timestamp(rows[i]) : i \in DOMAIN rows})
    IN [i \in DOMAIN keys |->
          [test_date |-> keys[i],
           deviation |-> Mean(SelectSeq(rows, LAMBDA r : Timestamp(r) = keys[i]),
                              "deviation")]]

\* ai_assistant.py line 420: groupby(test_date.dt.date) mean of
\* 'percentage_deviation', one point per calendar day, in date order
GroupedByDate(df, assayer) ==
    LET rows == AssayerRows(df, assayer)
        keys == SortValues({r.test_date : r \in {rows[i] : i \in DOMAIN rows}})
    IN [i \in DOMAIN keys |->
          [date |-> keys[i],
           percentage_deviation |->
               Mean(SelectSeq(rows, LAMBDA r : r.test_date = keys[i]),
                    "percentage_deviation")]]

\* rolling(window).mean() followed by dropping the NaN of the first
\* window - 1 points: point i of the result is for input point i + window - 1
RollingMean(points, col, window) ==
    [i \in 1..(Len(points) - window + 1) |->
        Mean(SubSeq(points, i, i + window - 1), col)]

\* faulty variant: the groupby is left out and the rolling mean runs over the
\* assayer's raw rows in stable test_date order
RawMovingAverage(df, assayer, window) ==
    LET rows == AssayerRows(df, assayer)
        ordered == SortSeq(rows, LAMBDA r1, r2 : Timestamp(r1) < Timestamp(r2))
        scaled == [i \in DOMAIN ordered |->
                     [test_date |-> Timestamp(ordered[i]),
                      deviation |-> ordered[i].deviation * MeanScale]]
        ma == RollingMean(scaled, "deviation", window)
    IN [i \in DOMAIN ma |->
          [test_date |-> scaled[i + window - 1].test_date, moving_avg |-> ma[i]]]

\* utils.py lines 187-203: the trace of one assayer
MovingAverage(df, assayer, window) ==
    LET assayer_df == GroupedByTestDate(df, assayer)
        ma == RollingMean(assayer_df, "deviation", window)
    IN [i \in DOMAIN ma |->
          [test_date |-> assayer_df[i + window - 1].test_date, moving_avg |-> ma[i]]]

\* round(value, 2) of a value in units of unit/100: to the nearest unit, a tie
\* to the even one
RoundHalfEven(x, unit) ==
    LET q == x \div unit
        r == x % unit
    IN  IF 2 * r < unit THEN unit * q
        ELSE IF 2 * r > unit THEN unit * (q + 1)
        ELSE IF q % 2 = 0 THEN unit * q ELSE unit * (q + 1)

\* percentage_deviation is kept in units of 0.0001 %, its rolled daily means
\* in 1/MeanScale^2 of that
PercentUnit == 100 * MeanScale * MeanScale

\* ai_assistant.py lines 416-431: the trend_data records of one assayer (the
\* last ten points)
TrendData(df, assayer, ma_window) ==
    LET daily_avg == GroupedByDate(df, assayer)
        ma_series == RollingMean(daily_avg, "percentage_deviation", ma_window)
        shown == {i \in DOMAIN ma_series : i > Len(ma_series) - 10}
    IN  IF Len(AssayerRows(df, assayer)) >= ma_window /\ Len(daily_avg) >= ma_window
          THEN [i \in 1..Cardinality(shown) |->
                  LET j == i + Len(ma_series) - Cardinality(shown)
                  IN [date |-> daily_avg[j + ma_window - 1].date,
                      ma_value |-> RoundHalfEven(ma_series[j], PercentUnit)]]
          ELSE <<>>

\* the DataFrame that the call at hand was given
TrendInput == IF last.op = "get_deviations_from_benchmark" THEN last.rows ELSE last.pre

\* utils.py lines 185-203: one trace per assayer with at least window points
Traces(deviations_df, window) ==
    {[assayer_name |-> a, points |-> MovingAverage(deviations_df, a, window)]
       : a \in {a \in AssayerNames(deviations_df) :
                   Len(GroupedByTestDate(deviations_df, a)) >= window}}

\* ai_assistant.py lines 413-431: the records of every assayer that has any
TrendDataOf(deviations_df, ma_window) ==
    {[assayer_name |-> a, points |-> TrendData(deviations_df, a, ma_window)]
       : a \in {a \in AssayerNames(deviations_df) :
                   TrendData(deviations_df, a, ma_window) # <<>>}}

\* utils.py lines 148-234: the traces of the figure, None when there is none
create_moving_average_chart(window) ==
    /\ last.op \in {"get_deviations_from_benchmark", "create_moving_average_chart",
                     "analyze_trend_chart"}
    /\ LET deviations_df == TrendInput
           traces == Traces(deviations_df, window)
       IN last' = [op |-> "create_moving_average_chart", arg |-> window,
                   ret |-> IF traces = {} THEN "None" ELSE "Figure",
                   rows |-> traces, pre |-> deviations_df, bench |-> 0, days |-> 0]
    /\ UNCHANGED <<assayers, assay_results, benchmark_assayers, seq, pc, loc>>
    /\ UNCHANGED trainee_tables
    /\ UNCHANGED interlab_tables

\* ai_assistant.py lines 393-431: the trend_data handed to the language model
analyze_trend_chart(ma_window) ==
    /\ last.op \in {"get_deviations_from_benchmark", "create_moving_average_chart",
                     "analyze_trend_chart"}
    /\ LET deviations_df == TrendInput
           trend_data == TrendDataOf(deviations_df, ma_window)
       IN last' = [op |-> "analyze_trend_chart", arg |-> ma_window,
                   ret |-> IF deviations_df = <<>> THEN "No data" ELSE "analysis",
                   rows |-> trend_data, pre |-> deviations_df, bench |-> 0, days |-> 0]
    /\ UNCHANGED <<assayers, assay_results, benchmark_assayers, seq, pc, loc>>
    /\ UNCHANGED trainee_tables
    /\ UNCHANGED interlab_tables

\* -------------------------------------------------- trainee certification
\* trainees(trainee_id AUTOINCREMENT, assayer_id, certification_date, status,
\* target_tolerance, min_samples_required, min_accuracy_percentage, is_active);
\* certification_date 0 is NULL
TraineeRow(id, a, tol, ms, pct) ==
    [trainee_id |-> id, assayer_id |-> a, certification_date |-> 0, status |-> "Pending",
     target_tolerance |-> tol, min_samples_required |-> ms,
     min_accuracy_percentage |-> pct, is_active |-> 1]

\* trainee_evaluations(evaluation_id AUTOINCREMENT, trainee_id, deviation_ppt,
\* is_within_tolerance, evaluation_type)
EvaluationRow(id, tid, dev, within, type) ==
    [evaluation_id |-> id, trainee_id |-> tid, deviation_ppt |-> dev,
     is_within_tolerance |-> within, evaluation_type |-> type]

\* add_trainee, lines 98-117: the two SELECTs; an unknown assayer raises
\* ValueError, an assayer with an active trainee row gets that row's
\* trainee_id (arg), and pre is the number of active rows found
add_trainee_check(s, assayer_id, target_tolerance, min_samples_required, min_accuracy_percentage) ==
    /\ pc[s] = "idle"
    /\ LET existing == {tr \in trainees : tr.assayer_id = assayer_id /\ tr.is_active = 1}
       IN IF ~(\E a \in assayers : a.assayer_id = assayer_id)
            THEN /\ last' = Done("add_trainee", 0, "raised")
                 /\ UNCHANGED <<pc, loc>>
            ELSE IF existing # {}
                   THEN /\ \E tr \in existing :
                              last' = [Done("add_trainee", tr.trainee_id, "existing") EXCEPT
                                         !.pre = Cardinality(existing)]
                        /\ UNCHANGED <<pc, loc>>
                   ELSE /\ pc' = [pc EXCEPT ![s] = "add_trainee"]
                        /\ loc' = [loc EXCEPT ![s] =
                                     [arg |-> assayer_id, days |-> 0,
                                      target_tolerance |-> target_tolerance,
                                      min_samples_required |-> min_samples_required,
                                      min_accuracy_percentage |-> min_accuracy_percentage]]
                        /\ UNCHANGED last
    /\ UNCHANGED <<assayers, assay_results, benchmark_assayers, seq>>
    /\ UNCHANGED trainee_tables
    /\ UNCHANGED interlab_tables

\* INSERT INTO trainees: the table has no UNIQUE constraint on assayer_id
Registered(rows, row) == rows \cup {row}

\* add_trainee, lines 119-129: the INSERT and its commit; trainee rows are
\* never deleted, so the next AUTOINCREMENT id is the row count plus one
add_trainee_insert(s) ==
    /\ pc[s] = "add_trainee"
    /\ trainees' = Registered(trainees,
                              TraineeRow(Cardinality(trainees) + 1, loc[s].arg,
                                         loc[s].target_tolerance, loc[s].min_samples_required,
                                         loc[s].min_accuracy_percentage))
    /\ pc' = [pc EXCEPT ![s] = "idle"]
    /\ loc' = [loc EXCEPT ![s] = NoLoc]
    /\ last' = Done("add_trainee", Cardinality(trainees) + 1, "inserted")
    /\ UNCHANGED <<assayers, assay_results, benchmark_assayers, seq>>
    /\ UNCHANGED <<trainee_evaluations, certification_thresholds>>
    /\ UNCHANGED interlab_tables

\* the certified gold content of the reference material, tenths of ppt
CertifiedValue == 9950

\* add_trainee_evaluation, lines 220-271: the deviation from the certified
\* value, the tolerance test, the INSERT and its commit; rows are never
\* deleted, so the next AUTOINCREMENT id is the row count plus one
add_trainee_evaluation(s, tid, measured_gold_content, evaluation_type) ==
    /\ pc[s] = "idle"
    /\ Cardinality(trainee_evaluations) < MaxEvaluationId
    /\ \E tr \in trainees :
          /\ tr.trainee_id = tid
          /\ LET deviation_ppt == measured_gold_content - CertifiedValue
                 is_within_tolerance ==
                     IF Abs(deviation_ppt) <= tr.target_tolerance THEN 1 ELSE 0
             IN trainee_evaluations' = trainee_evaluations \cup
                   {EvaluationRow(Cardinality(trainee_evaluations) + 1, tid, deviation_ppt,
                                  is_within_tolerance, evaluation_type)}
    /\ pc' = [pc EXCEPT ![s] = "update_status"]
    /\ loc' = [loc EXCEPT ![s] = [arg |-> tid, days |-> 0, todo |-> {}]]
    /\ UNCHANGED interlab_tables
    /\ UNCHANGED <<assayers, assay_results, benchmark_assayers, seq, last,
                   trainees, certification_thresholds>>

\* the sums that the statistics of lines 350-385 are made of
EvaluationColumn(e, col) ==
    CASE col = "within_tolerance" -> e.is_within_tolerance
      [] col = "deviation" -> e.deviation_ppt
      [] col = "squared_deviation" -> e.deviation_ppt * e.deviation_ppt

RECURSIVE SumEvaluations(_, _)
SumEvaluations(evals, col) ==
    IF evals = {} THEN 0
    ELSE LET e == CHOOSE x \in evals : TRUE
         IN EvaluationColumn(e, col) + SumEvaluations(evals \ {e}, col)

\* faulty variant: one evaluation outside the tolerance fails the type
AccuracyPercentageOkAllWithin(evals, min_accuracy_percentage) ==
    SumEvaluations(evals, "within_tolerance") = Cardinality(evals)

\* within_tolerance / count * 100 >= min_accuracy_percentage
AccuracyPercentageOk(evals, min_accuracy_percentage) ==
    SumEvaluations(evals, "within_tolerance") * 100
        >= min_accuracy_percentage * Cardinality(evals)

\* abs(sum(deviations) / count) <= max_avg_deviation
AvgDeviationOk(evals, max_avg_deviation) ==
    Abs(SumEvaluations(evals, "deviation")) <= max_avg_deviation * Cardinality(evals)

\* np.std(deviations, ddof=1) <= max_std_deviation, 0.0 for a single value:
\* sum((d - mean)^2) / (n - 1) <= max^2, multiplied by n (n - 1)
StdDeviationOk(evals, max_std_deviation) ==
    LET n == Cardinality(evals)
        s == SumEvaluations(evals, "deviation")
    IN  IF n > 1
          THEN n * SumEvaluations(evals, "squared_deviation") - s * s
                  <= max_std_deviation * max_std_deviation * n * (n - 1)
          ELSE 0 <= max_std_deviation

\* faulty variant: the standard deviation is not looked at
PassedIgnoringStd(evals, th) ==
    /\ AccuracyPercentageOk(evals, th.min_accuracy_percentage)
    /\ AvgDeviationOk(evals, th.max_avg_deviation)

\* accuracy_passed (lines 390-394) and consistency_passed (lines 398-402)
Passed(evals, th) ==
    /\ AccuracyPercentageOk(evals, th.min_accuracy_percentage)
    /\ AvgDeviationOk(evals, th.max_avg_deviation)
    /\ StdDeviationOk(evals, th.max_std_deviation)

\* lines 385-421
NewStatus(accuracy_evals, consistency_evals, th) ==
    IF Cardinality(accuracy_evals) >= th.min_samples
      THEN IF Cardinality(consistency_evals) > 0
             THEN IF Passed(accuracy_evals, th) /\ Passed(consistency_evals, th)
                    THEN "Certified" ELSE "Needs More Training"
             ELSE IF Passed(accuracy_evals, th)
                    THEN "Certified" ELSE "Needs More Training"
      ELSE "Pending"

\* lines 297-318: the active thresholds, with the trainee's own minimum sample
\* count and accuracy percentage in place of the global ones unless they are 0
ThresholdsFor(tr, th) ==
    [min_samples |->
         IF tr.min_samples_required # 0 THEN tr.min_samples_required ELSE th.min_samples,
     min_accuracy_percentage |->
         IF tr.min_accuracy_percentage # 0 THEN tr.min_accuracy_percentage
         ELSE th.min_accuracy_percentage,
     max_std_deviation |-> th.max_std_deviation,
     max_avg_deviation |-> th.max_avg_deviation]

\* a recomputation that has returned: the trainee, the status, the evaluations
\* it read and the thresholds it applied
Recomputed(tid, status, evals, th) ==
    [op |-> "update_trainee_certification_status", arg |-> tid, ret |-> status,
     rows |-> evals, pre |-> th, bench |-> 0, days |-> 0]

\* where a session goes when a recomputation is over: on to the next trainee
\* of update_all_trainee_statuses, if any
AfterStatus(s) == IF loc[s].todo = {} THEN "idle" ELSE "update_all"
LocAfterStatus(s) ==
    IF loc[s].todo = {} THEN NoLoc ELSE [arg |-> 0, days |-> 0, todo |-> loc[s].todo]

\* update_trainee_certification_status, lines 297-386: the SELECTs (they run
\* outside a transaction) and the computation; with no evaluation it returns
\* "Pending" and writes nothing
update_status_read(s) ==
    /\ pc[s] = "update_status"
    /\ \E tr \in trainees, th \in certification_thresholds :
          /\ tr.trainee_id = loc[s].arg
          /\ th.is_active = 1
          /\ LET evals == {e \in trainee_evaluations : e.trainee_id = tr.trainee_id}
                 applied == ThresholdsFor(tr, th)
                 status == NewStatus({e \in evals : e.evaluation_type = "accuracy"},
                                     {e \in evals : e.evaluation_type = "consistency"},
                                     applied)
             IN IF evals = {}
                  THEN /\ last' = Recomputed(tr.trainee_id, "Pending", evals, applied)
                       /\ pc' = [pc EXCEPT ![s] = AfterStatus(s)]
                       /\ loc' = [loc EXCEPT ![s] = LocAfterStatus(s)]
                  ELSE /\ loc' = [loc EXCEPT ![s] =
                                     [arg |-> tr.trainee_id, days |-> 0, todo |-> loc[s].todo,
                                      new_status |-> status, evaluations |-> evals,
                                      thresholds |-> applied]]
                       /\ pc' = [pc EXCEPT ![s] = "update_status_write"]
                       /\ UNCHANGED last
    /\ UNCHANGED interlab_tables
    /\ UNCHANGED <<assayers, assay_results, benchmark_assayers, seq, trainee_tables>>

\* faulty variant: the certification date is stamped at every Certified
update_status_write_restamping(s, now) ==
    /\ pc[s] = "update_status_write"
    /\ trainees' =
         {IF tr.trainee_id = loc[s].arg
            THEN [tr EXCEPT !.status = loc[s].new_status,
                            !.certification_date =
                                IF loc[s].new_status = "Certified" THEN now ELSE @]
            ELSE tr : tr \in trainees}
    /\ last' = Recomputed(loc[s].arg, loc[s].new_status, loc[s].evaluations,
                          loc[s].thresholds)
    /\ pc' = [pc EXCEPT ![s] = AfterStatus(s)]
    /\ loc' = [loc EXCEPT ![s] = LocAfterStatus(s)]
    /\ UNCHANGED interlab_tables
    /\ UNCHANGED <<assayers, assay_results, benchmark_assayers, seq,
                   trainee_evaluations, certification_thresholds>>

\* lines 423-439: UPDATE trainees SET status, the certification date of a
\* trainee certified for the first time (now is datetime.now() as a date),
\* commit
update_status_write(s, now) ==
    /\ pc[s] = "update_status_write"
    /\ trainees' =
         {IF tr.trainee_id = loc[s].arg
            THEN [tr EXCEPT !.status = loc[s].new_status,
                            !.certification_date =
                                IF loc[s].new_status = "Certified" /\ @ = 0 THEN now ELSE @]
            ELSE tr : tr \in trainees}
    /\ last' = Recomputed(loc[s].arg, loc[s].new_status, loc[s].evaluations,
                          loc[s].thresholds)
    /\ pc' = [pc EXCEPT ![s] = AfterStatus(s)]
    /\ loc' = [loc EXCEPT ![s] = LocAfterStatus(s)]
    /\ UNCHANGED interlab_tables
    /\ UNCHANGED <<assayers, assay_results, benchmark_assayers, seq,
                   trainee_evaluations, certification_thresholds>>

\* update_certification_thresholds, lines 700-721: one transaction deactivates
\* the thresholds and inserts the new active row; update_all_trainee_statuses
\* then reads the active trainees; new holds the four arguments
update_certification_thresholds(s, new) ==
    /\ pc[s] = "idle"
    /\ Cardinality(certification_thresholds) < MaxThresholdId
    /\ certification_thresholds' =
         {[th EXCEPT !.is_active = 0] : th \in certification_thresholds}
            \cup {ThresholdRow(Cardinality(certification_thresholds) + 1, new.min_samples,
                               new.min_accuracy_percentage, new.max_std_deviation,
                               new.max_avg_deviation, 1)}
    /\ pc' = [pc EXCEPT ![s] = "update_all"]
    /\ loc' = [loc EXCEPT ![s] =
                  [arg |-> 0, days |-> 0,
                   todo |-> {tr.trainee_id : tr \in {tr \in trainees : tr.is_active = 1}}]]
    /\ UNCHANGED interlab_tables
    /\ UNCHANGED <<assayers, assay_results, benchmark_assayers, seq, last,
                   trainees, trainee_evaluations>>

\* update_all_trainee_statuses, lines 723-735: the next trainee of the loop
update_all_trainee_statuses(s) ==
    /\ pc[s] = "update_all"
    /\ IF loc[s].todo = {}
         THEN /\ pc' = [pc EXCEPT ![s] = "idle"]
              /\ loc' = [loc EXCEPT ![s] = NoLoc]
         ELSE LET tid == CHOOSE x \in loc[s].todo : \A y \in loc[s].todo : x <= y
              IN /\ pc' = [pc EXCEPT ![s] = "update_status"]
                 /\ loc' = [loc EXCEPT ![s] =
                               [arg |-> tid, days |-> 0, todo |-> loc[s].todo \ {tid}]]
    /\ UNCHANGED interlab_tables
    /\ UNCHANGED <<assayers, assay_results, benchmark_assayers, seq, last, trainee_tables>>

\* ------------------------------------------- inter-laboratory comparisons
\* add_external_lab, lines 94-114: labs are never deleted, so the next
\* AUTOINCREMENT id is the row count plus one
add_external_lab ==
    /\ Cardinality(external_labs) < MaxLabId
    /\ external_labs' = external_labs \cup {LabRow(Cardinality(external_labs) + 1, 1, 0)}
    /\ last' = Done("add_external_lab", Cardinality(external_labs) + 1, "True")
    /\ UNCHANGED <<assayers, assay_results, benchmark_assayers, seq, pc, loc>>
    /\ UNCHANGED trainee_tables
    /\ UNCHANGED <<interlab_results, interlab_comparisons>>

\* delete_external_lab, lines 198-204: the count of the lab's results
delete_external_lab_check(s, lab_id) ==
    /\ pc[s] = "idle"
    /\ IF \E r \in interlab_results : r.lab_id = lab_id
         THEN /\ last' = Done("delete_external_lab", lab_id, "False")
              /\ UNCHANGED <<pc, loc>>
         ELSE /\ pc' = [pc EXCEPT ![s] = "delete_external_lab"]
              /\ loc' = [loc EXCEPT ![s] = [arg |-> lab_id, days |-> 0]]
              /\ UNCHANGED last
    /\ UNCHANGED <<assayers, assay_results, benchmark_assayers, seq>>
    /\ UNCHANGED trainee_tables
    /\ UNCHANGED interlab_tables

\* delete_external_lab, lines 206-210: the lab is deactivated
delete_external_lab_update(s) ==
    /\ pc[s] = "delete_external_lab"
    /\ external_labs' = {IF l.lab_id = loc[s].arg THEN [l EXCEPT !.is_active = 0] ELSE l
                           : l \in external_labs}
    /\ pc' = [pc EXCEPT ![s] = "idle"]
    /\ loc' = [loc EXCEPT ![s] = NoLoc]
    /\ last' = Done("delete_external_lab", loc[s].arg, "True")
    /\ UNCHANGED <<assayers, assay_results, benchmark_assayers, seq>>
    /\ UNCHANGED trainee_tables
    /\ UNCHANGED <<interlab_results, interlab_comparisons>>

BenchmarkLabs == {l \in external_labs : l.is_benchmark = 1}

\* faulty variant: the UPDATE that clears the existing benchmark is dropped
ClearNoBenchmark(rows) == rows

\* UPDATE external_labs SET is_benchmark = 0
ClearBenchmark(rows) == {[l EXCEPT !.is_benchmark = 0] : l \in rows}

\* set_external_lab_benchmark, lines 335-360: one transaction clears the flag
\* of every lab and sets it for lab_id; pre is the number of labs flagged
\* before
set_external_lab_benchmark(lab_id) ==
    /\ external_labs' =
         {IF l.lab_id = lab_id THEN [l EXCEPT !.is_benchmark = 1] ELSE l
            : l \in ClearBenchmark(external_labs)}
    /\ last' = [Done("set_external_lab_benchmark", lab_id, "True") EXCEPT
                   !.pre = Cardinality(BenchmarkLabs)]
    /\ UNCHANGED <<assayers, assay_results, benchmark_assayers, seq, pc, loc>>
    /\ UNCHANGED trainee_tables
    /\ UNCHANGED <<interlab_results, interlab_comparisons>>

\* get_external_lab_benchmark, lines 362-390: a lab that is flagged and
\* active (LIMIT 1), or None; arg is the lab_id returned
get_external_lab_benchmark ==
    /\ LET found == {l \in external_labs : l.is_benchmark = 1 /\ l.is_active = 1}
       IN IF found = {}
            THEN last' = Done("get_external_lab_benchmark", 0, "None")
            ELSE \E l \in found : last' = Done("get_external_lab_benchmark", l.lab_id, "dict")
    /\ UNCHANGED <<assayers, assay_results, benchmark_assayers, seq, pc, loc>>
    /\ UNCHANGED trainee_tables
    /\ UNCHANGED interlab_tables

\* add_interlab_result, lines 217-257: the INSERT fails on a second result of
\* the lab for the sample; test_date defaults to now
add_interlab_result(lab_id, sample_id, gold_content) ==
    /\ IF \E r \in interlab_results : r.lab_id = lab_id /\ r.sample_id = sample_id
         THEN /\ last' = Done("add_interlab_result", lab_id, "False")
              /\ UNCHANGED interlab_results
         ELSE /\ interlab_results' = interlab_results \cup
                    {InterlabResultRow(Cardinality(interlab_results) + 1, lab_id, sample_id,
                                       gold_content, Today)}
              /\ last' = Done("add_interlab_result", lab_id, "True")
    /\ UNCHANGED <<assayers, assay_results, benchmark_assayers, seq, pc, loc>>
    /\ UNCHANGED trainee_tables
    /\ UNCHANGED <<external_labs, interlab_comparisons>>

\* create_interlab_comparison, lines 308-333: the INSERT fails on a second
\* comparison of the same pair of samples
create_interlab_comparison(internal_sample_id, external_sample_id) ==
    /\ IF \E c \in interlab_comparisons :
             /\ c.internal_sample_id = internal_sample_id
             /\ c.external_sample_id = external_sample_id
         THEN /\ last' = Done("create_interlab_comparison", internal_sample_id, "False")
              /\ UNCHANGED interlab_comparisons
         ELSE /\ interlab_comparisons' = interlab_comparisons \cup
                    {ComparisonRow(Cardinality(interlab_comparisons) + 1, internal_sample_id,
                                   external_sample_id, Today)}
              /\ last' = Done("create_interlab_comparison", internal_sample_id, "True")
    /\ UNCHANGED <<assayers, assay_results, benchmark_assayers, seq, pc, loc>>
    /\ UNCHANGED trainee_tables
    /\ UNCHANGED <<external_labs, interlab_results>>

\* the columns of one joined row, lines 425-442
InterlabComparisonRow(ic, ar, er) ==
    [comparison_id |-> ic.comparison_id, internal_sample_id |-> ic.internal_sample_id,
     external_sample_id |-> ic.external_sample_id,
     internal_gold_content |-> ar.gold_content, external_gold_content |-> er.gold_content,
     assayer_id |-> ar.assayer_id, lab_id |-> er.lab_id,
     absolute_deviation |-> er.gold_content - ar.gold_content]

\* get_interlab_comparisons, lines 392-447: comparisons joined with the
\* internal results (of assayers that exist) and the external results (of
\* labs that exist), each within the lookback
InterlabComparisonRows(days) ==
    {InterlabComparisonRow(j[1], j[2], j[3])
       : j \in {j \in interlab_comparisons \X assay_results \X interlab_results :
                  /\ j[1].internal_sample_id = j[2].sample_id
                  /\ j[1].external_sample_id = j[3].sample_id
                  /\ \E a \in assayers : a.assayer_id = j[2].assayer_id
                  /\ \E l \in external_labs : l.lab_id = j[3].lab_id
                  /\ j[2].test_date >= Today - days
                  /\ j[3].test_date >= Today - days
                  /\ j[1].comparison_date >= Today - days}}

get_interlab_comparisons(days) ==
    /\ last' = [Done("get_interlab_comparisons", 0, "DataFrame") EXCEPT
                   !.rows = InterlabComparisonRows(days), !.days = days]
    /\ UNCHANGED <<assayers, assay_results, benchmark_assayers, seq, pc, loc>>
    /\ UNCHANGED trainee_tables
    /\ UNCHANGED interlab_tables

\* ------------------------------------------------------ LLM narratives
\* The environment of the process: keys is the set of providers whose API key
\* is set when the modules are imported, outcome tells for each provider
\* whether a request to it returns a response ("ok") or raises.  A text is
\* modelled by where it comes from: the provider that wrote it, the generator
\* function that built it, or the error message's opening words.
ProviderNames == {"OpenAI", "Anthropic", "DeepSeek"}
Environments ==
    [keys : SUBSET ProviderNames, outcome : [ProviderNames -> {"ok", "raises"}]]

NarrativeFunctions ==
    {"analyze_deviation_data", "analyze_heatmap", "analyze_trend_chart",
     "analyze_distribution_chart", "generate_performance_recommendations"}
NarrativeModules ==
    {"ai_assistant", "claude_assistant", "openai_assistant", "deepseek_assistant"}

\* the generate_* function each narrative function falls back to
FallbackGenerator(function) ==
    CASE function = "analyze_deviation_data" -> "generate_statistical_analysis"
      [] function = "analyze_heatmap" -> "generate_heatmap_analysis"
      [] function = "analyze_trend_chart" -> "generate_trend_analysis"
      [] function = "analyze_distribution_chart" -> "generate_distribution_analysis"
      [] function = "generate_performance_recommendations" -> "generate_recommendation_fallback"

\* the message of each function's last except branch
ErrorMessage(function) ==
    CASE function = "analyze_deviation_data" -> "An error occurred while analyzing the data"
      [] function = "analyze_heatmap" -> "An error occurred while analyzing the heatmap"
      [] function = "analyze_trend_chart" -> "An error occurred while analyzing the trend chart"
      [] function = "analyze_distribution_chart" ->
            "An error occurred while analyzing the distribution chart"
      [] function = "generate_performance_recommendations" ->
            "An error occurred while generating recommendations"

\* what a narrative function returns: the text and the providers requested
Narrative(text, calls) == [text |-> text, calls |-> calls]

\* a request to a provider: without a key the client is None or the request
\* is refused, and the statement raises
Request(provider, env) ==
    IF provider \in env.keys /\ env.outcome[provider] = "ok" THEN "ok" ELSE "raises"

\* ai_assistant.py: analyze_deviation_data (lines 111-159) and analyze_heatmap
\* (lines 285-332) test client is None and fall back in their except branch;
\* the other three call client.chat.completions.create unguarded and return
\* the error message from their except branch (lines 513-514, 625-626, 735-736)
ai_assistant(function, env) ==
    IF function \in {"analyze_deviation_data", "analyze_heatmap"}
      THEN IF "OpenAI" \notin env.keys
             THEN Narrative(FallbackGenerator(function), <<>>)
             ELSE IF Request("OpenAI", env) = "ok"
                    THEN Narrative("OpenAI", <<"OpenAI">>)
                    ELSE Narrative(FallbackGenerator(function), <<"OpenAI">>)
      ELSE IF "OpenAI" \notin env.keys
             THEN Narrative(ErrorMessage(function), <<>>)
             ELSE IF Request("OpenAI", env) = "ok"
                    THEN Narrative("OpenAI", <<"OpenAI">>)
                    ELSE Narrative(ErrorMessage(function), <<"OpenAI">>)

\* claude_assistant.py lines 16-46: returns a message, never raises
analyze_with_claude(env) ==
    IF Request("Anthropic", env) = "ok" THEN Narrative("Anthropic", <<"Anthropic">>)
    ELSE IF "Anthropic" \notin env.keys
           THEN Narrative("Claude AI services are not available", <<>>)
           ELSE Narrative("Error using Claude AI", <<"Anthropic">>)

\* claude_assistant.py: every function returns analyze_with_claude(...)
claude_assistant(function, env) == analyze_with_claude(env)

\* openai_assistant.py lines 17-48: raises without a key and when the request
\* raises; every function returns the generator's text from its except branch
openai_assistant(function, env) ==
    IF "OpenAI" \notin env.keys
      THEN Narrative(FallbackGenerator(function), <<>>)
      ELSE IF Request("OpenAI", env) = "ok"
             THEN Narrative("OpenAI", <<"OpenAI">>)
             ELSE Narrative(FallbackGenerator(function), <<"OpenAI">>)

\* deepseek_assistant.py: analyze_with_deepseek returns None without a request
\* (lines 15-30) and every function returns the generator's text
deepseek_assistant(function, env) == Narrative(FallbackGenerator(function), <<>>)

NarrativeOf(module, function, env) ==
    CASE module = "ai_assistant" -> ai_assistant(function, env)
      [] module = "claude_assistant" -> claude_assistant(function, env)
      [] module = "openai_assistant" -> openai_assistant(function, env)
      [] module = "deepseek_assistant" -> deepseek_assistant(function, env)

\* the result of a narrative call: op the function, arg its module, ret the
\* text, rows the requests made, pre the environment
Narrated(op, module, result, env) ==
    [op |-> op, arg |-> module, ret |-> result.text, rows |-> result.calls,
     pre |-> env, bench |-> 0, days |-> 0]

\* a page calls a narrative function of one of the modules on a non-empty
\* DataFrame whose summary can be computed
narrative(module, function) ==
    /\ last.pre \in Environments
    /\ last' = Narrated(function, module, NarrativeOf(module, function, last.pre), last.pre)
    /\ UNCHANGED <<assayers, assay_results, benchmark_assayers, seq, pc, loc>>
    /\ UNCHANGED trainee_tables
    /\ UNCHANGED interlab_tables

\* faulty variant: DeepSeek is attempted first
ProviderOrderDeepSeekFirst == <<"DeepSeek", "OpenAI", "Anthropic">>

\* ai_chat.py lines 122-177: the order of the three attempts
ProviderOrder == <<"OpenAI", "Anthropic", "DeepSeek">>

\* ai_chat.py lines 122-180: from the i-th attempt on; an attempt is made if
\* the client exists, its response is returned, its exception is swallowed
RECURSIVE TryProviders(_, _, _)
TryProviders(i, calls, env) ==
    IF i > Len(ProviderOrder)
      THEN Narrative("generate_data_answer_fallback", calls)
      ELSE LET provider == ProviderOrder[i]
           IN IF provider \notin env.keys
                THEN TryProviders(i + 1, calls, env)
                ELSE IF Request(provider, env) = "ok"
                       THEN Narrative(provider, Append(calls, provider))
                       ELSE TryProviders(i + 1, Append(calls, provider), env)

QueryKinds == {"data", "profile"}

\* ai_chat.py answer_data_query, lines 27-183: a question about profiles is
\* answered from the database; with no key at all the fallback answers
answer_data_query(query) ==
    /\ last.pre \in Environments
    /\ LET env == last.pre
           result == IF query = "profile" THEN Narrative("answer_profile_query", <<>>)
                     ELSE IF env.keys = {}
                            THEN Narrative("generate_data_answer_fallback", <<>>)
                            ELSE TryProviders(1, <<>>, env)
       IN last' = Narrated("answer_data_query", query, result, env)
    /\ UNCHANGED <<assayers, assay_results, benchmark_assayers, seq, pc, loc>>
    /\ UNCHANGED trainee_tables
    /\ UNCHANGED interlab_tables

\* ------------------------------------------------------- specifications
\* Spec: assayer registration and removal, benchmark designation and
\* sample-data initialisation, by concurrent sessions
\* the pages offer assayers read from the table for selection, so a call
\* names an assayer_id that has been handed out (the row may be gone by then)
AllocatedIds == 1..(seq.assayers - 1)

Next ==
    \/ \E emp \in EmployeeIds : add_assayer(emp)
    \/ \E s \in Sessions, id \in AllocatedIds : delete_assayer_check(s, id)
    \/ \E s \in Sessions : delete_assayer_update(s)
    \/ \E id \in AllocatedIds : set_benchmark_assayer(id)
    \/ \E s \in Sessions : init_sample_data_check(s)
    \/ \E s \in Sessions : init_sample_data_clear(s)
    \/ \E s \in Sessions, bg \in GoldValues, og \in GoldValues : init_sample_data_populate(s, bg, og)

Spec == Init /\ [][Next]_vars

\* SpecResults: data entry (single and batch entry are calls of
\* add_assay_result), edit and delete of results, with the benchmark changing;
\* starts with two assayers registered, and the pages offer the registered
\* assayers for selection
InitResults ==
    /\ assayers = {AssayerRow(1, "JS001", 1), AssayerRow(2, "X100", 1)}
    /\ assay_results = {}
    /\ benchmark_assayers = {}
    /\ seq = [assayers |-> 3, assay_results |-> 1, benchmark_assayers |-> 1]
    /\ pc = [s \in Sessions |-> "idle"]
    /\ loc = [s \in Sessions |-> NoLoc]
    /\ last = Done("init_db", 0, "None")
    /\ init_trainee_db
    /\ init_interlab_db

RegisteredIds == {a.assayer_id : a \in assayers}
\* the edit and delete forms work on a result picked from a search
StoredResultIds == {r.result_id : r \in assay_results}

NextResults ==
    \/ \E a \in RegisteredIds, sid \in SampleIds, g \in GoldValues :
          add_assay_result(a, sid, g, Today, 0)
    \/ \E rid \in StoredResultIds, g \in GoldValues :
          update_assay_result(rid, g, FALSE, 0)
    \/ \E rid \in StoredResultIds : delete_assay_result_check(1, rid)
    \/ delete_assay_result_delete(1)
    \/ \E id \in RegisteredIds : set_benchmark_assayer(id)

SpecResults == InitResults /\ [][NextResults]_vars

\* SpecQuery: the deviation and mass-impact queries over every content of
\* assay_results of up to MaxResultId rows (result ids in insertion order,
\* (assayer_id, sample_id) unique) and every choice of benchmark
QueryAssayerIds == {1, 2, 3}

ResultContents ==
    UNION {{f \in [1..n -> QueryAssayerIds \X SampleIds \X GoldValues \X TestDates \X BarWeights] :
              \A i, j \in 1..n : i < j =>
                 \/ f[i][1] < f[j][1]
                 \/ f[i][1] = f[j][1] /\ f[i][2] < f[j][2]}
           : n \in 0..MaxResultId}

InitQuery ==
    /\ assayers = {AssayerRow(i, "X10" \o ToString(i), 1) : i \in QueryAssayerIds}
    /\ \E f \in ResultContents :
          assay_results = {ResultRow(i, f[i][1], f[i][2], f[i][3], f[i][4], f[i][5])
                              : i \in DOMAIN f}
    /\ \E bs \in {{}} \cup {{BenchmarkRow(1, a, 1)} : a \in QueryAssayerIds} :
          benchmark_assayers = bs
    /\ seq = [assayers |-> Cardinality(assayers) + 1,
              assay_results |-> Cardinality(assay_results) + 1,
              benchmark_assayers |-> Cardinality(benchmark_assayers) + 1]
    /\ pc = [s \in Sessions |-> "idle"]
    /\ loc = [s \in Sessions |-> NoLoc]
    /\ last = Done("init_db", 0, "None")
    /\ init_trainee_db
    /\ init_interlab_db

NextQuery ==
    \/ \E days \in LookbackDays : get_deviations_benchmark(1, days)
    \/ get_deviations_query(1)
    \/ \E days \in LookbackDays : get_weighted_mass_impact_benchmark(1, days)
    \/ get_weighted_mass_impact_query(1)

SpecQuery == InitQuery /\ [][NextQuery]_vars

\* SpecMass: get_weighted_mass_impact over every set of readings by two
\* assayers of two samples that the benchmark assayer may have read too:
\* readings below, at and above the benchmark's, on bars of unrecorded weight
\* (0), 4 g and 1000 g
MassBenchmarkId == 1
MassAssayerIds == {2, 3}
MassBenchmarkGold == 9950
MassGoldValues == {9945, 9950, 9955}
MassBarWeights == {0, 4, 1000}
\* <<0, 0>>: the assayer has no reading for the sample
MassReadings == (MassGoldValues \X MassBarWeights) \cup {<<0, 0>>}
MassResultId(a, sid) == Cardinality(SampleIds) * (a - 1) + sid

InitMass ==
    /\ assayers = {AssayerRow(i, "X10" \o ToString(i), 1)
                      : i \in {MassBenchmarkId} \cup MassAssayerIds}
    /\ \E c \in [MassAssayerIds \X SampleIds -> MassReadings], bs \in SUBSET SampleIds :
          assay_results =
             {ResultRow(MassResultId(MassBenchmarkId, sid), MassBenchmarkId, sid,
                        MassBenchmarkGold, Today, 1000) : sid \in bs}
               \cup {ResultRow(MassResultId(p[1], p[2]), p[1], p[2], c[p][1], Today, c[p][2])
                        : p \in {p \in MassAssayerIds \X SampleIds : c[p][1] # 0}}
    /\ benchmark_assayers = {BenchmarkRow(1, MassBenchmarkId, 1)}
    /\ seq = [assayers |-> Cardinality(assayers) + 1,
              assay_results |-> Cardinality(SampleIds) * Cardinality(assayers) + 1,
              benchmark_assayers |-> 2]
    /\ pc = [s \in Sessions |-> "idle"]
    /\ loc = [s \in Sessions |-> NoLoc]
    /\ last = Done("init_db", 0, "None")
    /\ init_trainee_db
    /\ init_interlab_db

NextMass ==
    \/ \E days \in LookbackDays : get_weighted_mass_impact_benchmark(1, days)
    \/ get_weighted_mass_impact_query(1)
    \/ \E price \in GoldPrices : mass_impact_page(price)

SpecMass == InitMass /\ [][NextMass]_vars

\* SpecTrend: the two moving-average computations on every DataFrame of up to
\* MaxTrendRows deviation rows of two assayers over two days; the functions
\* read the DataFrame only, so the tables are left empty
MaxTrendRows == 3
TrendAssayerNames == {"John Smith", "Maria Garcia"}
TrendDates == {Today - 1, Today}
TrendTimes == {0, 1}
TrendDeviations == {-5, 5}
TrendBenchmarkValue == 9950
Windows == {2, 3}

\* database.py line 444: (r.gold_content - b.gold_content) / b.gold_content * 100,
\* in units of 0.0001 %, truncated
PercentageDeviation(deviation, benchmark_value) ==
    IF deviation >= 0 THEN (deviation * 1000000) \div benchmark_value
    ELSE -((-deviation * 1000000) \div benchmark_value)

TrendRow(name, d, tm, dev) ==
    [assayer_name |-> name, test_date |-> d, test_time |-> tm, deviation |-> dev,
     percentage_deviation |-> PercentageDeviation(dev, TrendBenchmarkValue)]

InitTrend ==
    /\ assayers = {}
    /\ assay_results = {}
    /\ benchmark_assayers = {}
    /\ seq = [assayers |-> 1, assay_results |-> 1, benchmark_assayers |-> 1]
    /\ pc = [s \in Sessions |-> "idle"]
    /\ loc = [s \in Sessions |-> NoLoc]
    /\ \E n \in 0..MaxTrendRows :
          \E f \in [1..n -> TrendAssayerNames \X TrendDates \X TrendTimes \X TrendDeviations] :
             last = [Done("get_deviations_from_benchmark", 0, "DataFrame") EXCEPT
                        !.rows = [i \in 1..n |-> TrendRow(f[i][1], f[i][2], f[i][3], f[i][4])]]
    /\ init_trainee_db
    /\ init_interlab_db

NextTrend ==
    \/ \E window \in Windows : create_moving_average_chart(window)
    \/ \E ma_window \in Windows : analyze_trend_chart(ma_window)

SpecTrend == InitTrend /\ [][NextTrend]_vars

\* SpecTrainee: evaluations of one registered trainee entered from two
\* sessions, and a change of the thresholds; the minimum sample count is scaled
\* down to 2
MeasuredValues == {CertifiedValue - 5, CertifiedValue, CertifiedValue + 5}
\* the days on which recomputations run
StampDates == {Today, Today + 1}
EvaluationTypes == {"accuracy", "consistency"}
\* target_tolerance, min_samples_required, min_accuracy_percentage
TraineeProfiles == {<<3, 2, 85>>, <<5, 2, 50>>}
NewThresholds ==
    {[min_samples |-> 20, min_accuracy_percentage |-> 85,
      max_std_deviation |-> 3, max_avg_deviation |-> 1]}

InitTrainee ==
    /\ assayers = {AssayerRow(1, "JS001", 1)}
    /\ assay_results = {}
    /\ benchmark_assayers = {}
    /\ seq = [assayers |-> 2, assay_results |-> 1, benchmark_assayers |-> 1]
    /\ pc = [s \in Sessions |-> "idle"]
    /\ loc = [s \in Sessions |-> NoLoc]
    /\ last = Done("init_db", 0, "None")
    /\ \E p \in TraineeProfiles : trainees = {TraineeRow(1, 1, p[1], p[2], p[3])}
    /\ trainee_evaluations = {}
    /\ certification_thresholds = {ThresholdRow(1, 20, 85, 5, 2, 1)}
    /\ init_interlab_db

NextTrainee ==
    \/ \E s \in Sessions, tr \in trainees, m \in MeasuredValues, type \in EvaluationTypes :
          add_trainee_evaluation(s, tr.trainee_id, m, type)
    \/ \E s \in Sessions : update_status_read(s)
    \/ \E s \in Sessions, now \in StampDates : update_status_write(s, now)
    \/ \E s \in Sessions, new \in NewThresholds : update_certification_thresholds(s, new)
    \/ \E s \in Sessions : update_all_trainee_statuses(s)

SpecTrainee == InitTrainee /\ [][NextTrainee]_vars

\* SpecRegister: trainee registrations from concurrent sessions, for the two
\* registered assayers and for an assayer_id that has no row
RegisterAssayerIds == {1, 2, 3}

InitRegister ==
    /\ assayers = {AssayerRow(1, "JS001", 1), AssayerRow(2, "X100", 1)}
    /\ assay_results = {}
    /\ benchmark_assayers = {}
    /\ seq = [assayers |-> 3, assay_results |-> 1, benchmark_assayers |-> 1]
    /\ pc = [s \in Sessions |-> "idle"]
    /\ loc = [s \in Sessions |-> NoLoc]
    /\ last = Done("init_db", 0, "None")
    /\ init_trainee_db
    /\ init_interlab_db

NextRegister ==
    \/ \E s \in Sessions, a \in RegisterAssayerIds, p \in TraineeProfiles :
          add_trainee_check(s, a, p[1], p[2], p[3])
    \/ \E s \in Sessions : add_trainee_insert(s)

SpecRegister == InitRegister /\ [][NextRegister]_vars

\* SpecRescore: the evaluation histories of one trainee built by one session,
\* with a change of the thresholds; the registration form lets the minimum
\* accuracy percentage go up to 100
RescoreProfiles == TraineeProfiles \cup {<<3, 2, 100>>}
RescoreSession == CHOOSE s \in Sessions : \A o \in Sessions : s <= o

InitRescore ==
    /\ assayers = {AssayerRow(1, "JS001", 1)}
    /\ assay_results = {}
    /\ benchmark_assayers = {}
    /\ seq = [assayers |-> 2, assay_results |-> 1, benchmark_assayers |-> 1]
    /\ pc = [s \in Sessions |-> "idle"]
    /\ loc = [s \in Sessions |-> NoLoc]
    /\ last = Done("init_db", 0, "None")
    /\ \E p \in RescoreProfiles : trainees = {TraineeRow(1, 1, p[1], p[2], p[3])}
    /\ trainee_evaluations = {}
    /\ certification_thresholds = {ThresholdRow(1, 20, 85, 5, 2, 1)}
    /\ init_interlab_db

NextRescore ==
    \/ \E tr \in trainees, m \in MeasuredValues, type \in EvaluationTypes :
          add_trainee_evaluation(RescoreSession, tr.trainee_id, m, type)
    \/ update_status_read(RescoreSession)
    \/ \E now \in StampDates : update_status_write(RescoreSession, now)
    \/ \E new \in NewThresholds : update_certification_thresholds(RescoreSession, new)
    \/ update_all_trainee_statuses(RescoreSession)

SpecRescore == InitRescore /\ [][NextRescore]_vars

\* SpecNarrative: the narrative functions and the chat answer under every
\* environment; the functions read no table
InitNarrative ==
    /\ assayers = {}
    /\ assay_results = {}
    /\ benchmark_assayers = {}
    /\ seq = [assayers |-> 1, assay_results |-> 1, benchmark_assayers |-> 1]
    /\ pc = [s \in Sessions |-> "idle"]
    /\ loc = [s \in Sessions |-> NoLoc]
    /\ \E env \in Environments : last = [Done("import", 0, "None") EXCEPT !.pre = env]
    /\ init_trainee_db
    /\ init_interlab_db

NextNarrative ==
    \/ \E module \in NarrativeModules, function \in NarrativeFunctions :
          narrative(module, function)
    \/ \E query \in QueryKinds : answer_data_query(query)

SpecNarrative == InitNarrative /\ [][NextNarrative]_vars

\* SpecLabs: external laboratories registered, deactivated and designated as
\* the benchmark by concurrent sessions; the pages offer the labs read from
\* the table for selection
LabIds == {l.lab_id : l \in external_labs}
LabSamples == {1}
LabGoldValues == {9950}

NextLabs ==
    \/ add_external_lab
    \/ \E s \in Sessions, lab_id \in LabIds : delete_external_lab_check(s, lab_id)
    \/ \E s \in Sessions : delete_external_lab_update(s)
    \/ \E lab_id \in LabIds : set_external_lab_benchmark(lab_id)
    \/ get_external_lab_benchmark
    \/ \E lab_id \in LabIds, sid \in LabSamples, g \in LabGoldValues :
          add_interlab_result(lab_id, sid, g)

SpecLabs == Init /\ [][NextLabs]_vars

\* SpecInterlab: external results of one lab entered and matched with the
\* internal readings of the two samples, and the comparison query
InterlabGoldValues == {9945, 9955}

InitInterlab ==
    /\ assayers = {AssayerRow(1, "JS001", 1)}
    /\ \E d \in [SampleIds -> TestDates], g \in LabGoldValues :
          assay_results = {ResultRow(sid, 1, sid, g, d[sid], 0) : sid \in SampleIds}
    /\ benchmark_assayers = {}
    /\ seq = [assayers |-> 2, assay_results |-> Cardinality(SampleIds) + 1,
              benchmark_assayers |-> 1]
    /\ pc = [s \in Sessions |-> "idle"]
    /\ loc = [s \in Sessions |-> NoLoc]
    /\ last = Done("init_db", 0, "None")
    /\ init_trainee_db
    /\ external_labs = {LabRow(1, 1, 0)}
    /\ interlab_results = {}
    /\ interlab_comparisons = {}

NextInterlab ==
    \/ \E l \in external_labs, sid \in SampleIds, g \in InterlabGoldValues :
          add_interlab_result(l.lab_id, sid, g)
    \/ \E internal \in SampleIds, external \in SampleIds :
          create_interlab_comparison(internal, external)
    \/ \E days \in LookbackDays : get_interlab_comparisons(days)

SpecInterlab == InitInterlab /\ [][NextInterlab]_vars

\* ------------------------------------------------------------------ claims
DeviationCall == "get_deviations_from_benchmark"
MassImpactCall == "get_weighted_mass_impact"

\* C1: when set_benchmark_assayer has returned, benchmark_assayers holds
\* exactly one row with is_active = 1, whatever it held before the call
C1_ExactlyOneActiveAfterSet ==
    last.op = "set_benchmark_assayer" => Cardinality(ActiveBenchmarks) = 1

\* the call found several active rows and has returned
C1_Witness ==
    /\ last.op = "set_benchmark_assayer"
    /\ last.pre >= 2
    /\ Cardinality(ActiveBenchmarks) = 1

\* C2: in every reachable state at most one benchmark_assayers row is active
C2_AtMostOneActive == Cardinality(ActiveBenchmarks) <= 1

\* C3: delete_assayer called for the active benchmark's assayer returns False
\* and in no step does the is_active flag of the assayer designated by an
\* active benchmark row change from 1 to 0
C3_BenchmarkNeverDeactivated ==
    [][/\ (last' # last /\ last'.op = "delete_assayer" /\ last'.arg \in ActiveBenchmarkIds)
            => (last'.ret = "False" /\ assayers' = assayers)
       /\ \A a \in assayers :
            (a.is_active = 1 /\ a.assayer_id \in ActiveBenchmarkIds)
               => \A n \in assayers' : n.assayer_id = a.assayer_id => n.is_active = 1]_vars

\* C4: no step removes from assay_results a result whose assayer holds the
\* active benchmark designation
C4_BenchmarkResultsKept ==
    [][\A r \in assay_results :
          r.assayer_id \in ActiveBenchmarkIds
             => \E n \in assay_results' : n.result_id = r.result_id]_vars

\* C5: every row returned by get_deviations_from_benchmark carries the stored
\* reading of its assayer, deviation = that reading minus the stored reading of
\* the active benchmark assayer for the same sample, and absolute_deviation =
\* |deviation|
C5_DeviationArithmetic ==
    (last.op = DeviationCall /\ last.ret = "DataFrame") =>
        /\ last.bench \in ActiveBenchmarkIds
        /\ \A row \in last.rows :
             \E r \in assay_results, b \in assay_results :
                /\ r.result_id = row.result_id
                /\ r.assayer_id = row.assayer_id /\ r.sample_id = row.sample_id
                /\ b.assayer_id = last.bench /\ b.sample_id = row.sample_id
                /\ row.deviation = r.gold_content - b.gold_content
                /\ row.absolute_deviation = Abs(row.deviation)

\* a returned row with a nonzero deviation
C5_Witness ==
    /\ last.op = DeviationCall
    /\ \E row \in last.rows : row.deviation # 0

\* C6: no row of a returned deviation result set belongs to the benchmark
\* assayer it was computed against
C6_BenchmarkNotInOwnResult ==
    (last.op = DeviationCall /\ last.ret = "DataFrame") =>
        \A row \in last.rows : row.assayer_id # last.bench

\* a non-empty result computed against a benchmark that has readings
C6_Witness ==
    /\ last.op = DeviationCall
    /\ last.rows # {}
    /\ \E b \in assay_results : b.assayer_id = last.bench

\* C7: get_deviations_from_benchmark(days = d) returns only rows whose test
\* date lies within the last d days
C7_LookbackHonoured ==
    (last.op = DeviationCall /\ last.ret = "DataFrame") =>
        \A row \in last.rows : row.test_date >= Today - last.days

\* C8: with no active benchmark row the two queries return None, and with one
\* they return a DataFrame (empty when there are no comparable samples)
C8_NoBenchmarkSignal ==
    last.op \in {DeviationCall, MassImpactCall} =>
        /\ ActiveBenchmarks = {} => last.ret = "None"
        /\ ActiveBenchmarks # {} => last.ret = "DataFrame"

\* get_weighted_mass_impact called with no benchmark set
C8_Witness ==
    /\ last.op = MassImpactCall
    /\ ActiveBenchmarks = {}
    /\ last.ret = "None"

\* C9: assay_results holds at most one row per (assayer_id, sample_id)
C9_UniquePair ==
    \A r1, r2 \in assay_results :
        (r1.assayer_id = r2.assayer_id /\ r1.sample_id = r2.sample_id) => r1 = r2

\* add_assay_result has been called for a pair that already had a reading,
\* while another result is stored too
C9_Witness ==
    /\ last.op = "add_assay_result"
    /\ last.pre = 1
    /\ Cardinality(assay_results) >= 2

\* C10: add_assay_result for a pair that already has a stored reading
\* returns failure
C10_DuplicateReportsFailure ==
    (last.op = "add_assay_result" /\ last.pre >= 1) => last.ret = "False"

\* C11: no step removes a row from the assayers table: every assayer_id
\* stored before a step is still stored after it
C11_AssayerRowsPersist ==
    [][\A a \in assayers : \E n \in assayers' : n.assayer_id = a.assayer_id]_vars

\* the records comparable with the benchmark: readings by another assayer,
\* within the last d days, of a sample the benchmark assayer has read too
ComparableRecords(results, benchmark_id, days) ==
    {r \in results :
        /\ r.assayer_id # benchmark_id
        /\ r.test_date >= Today - days
        /\ \E b \in results : b.assayer_id = benchmark_id /\ b.sample_id = r.sample_id}

\* a total of an assayer in a mass-impact result, 0 when it has no row
TotalOf(rows, a, col) ==
    IF \E row \in rows : row.assayer_id = a
      THEN (CHOOSE row \in rows : row.assayer_id = a)[col]
      ELSE 0

\* the mass-impact result the same call gives without the record rid
ImpactWithout(rid) ==
    MassSummary(MassSampleRowsOf({r \in assay_results : r.result_id # rid},
                                 last.bench, last.days, 0))

\* C12: a returned mass-impact result, compared with the result for the same
\* table without one of its weighed records m of assayer a: when m's mass
\* deviation is positive, a's negative total is the same and its positive
\* total is not lower (and higher once m weighs a rounding unit of 0.01 g);
\* when it is negative, the same with the totals exchanged; the rows of the
\* other assayers are the same
C12_SignedTotalsSeparate ==
    (last.op = MassImpactCall /\ last.ret = "DataFrame") =>
        \A m \in MassSampleRows(last.bench, last.days, 0) :
            LET a == m.assayer_id
                before == ImpactWithout(m.result_id)
                pos(rows) == TotalOf(rows, a, "total_positive_deviation_g")
                neg(rows) == TotalOf(rows, a, "total_negative_deviation_g")
            IN  /\ {row \in last.rows : row.assayer_id # a}
                      = {row \in before : row.assayer_id # a}
                /\ MassDeviation(m) > 0 =>
                      /\ neg(last.rows) = neg(before)
                      /\ pos(last.rows) >= pos(before)
                      /\ MassDeviation(m) >= 100 => pos(last.rows) > pos(before)
                /\ MassDeviation(m) < 0 =>
                      /\ pos(last.rows) = pos(before)
                      /\ neg(last.rows) >= neg(before)
                      /\ MassDeviation(m) <= -100 => neg(last.rows) > neg(before)

\* a result in which one assayer has both a gain and a loss of 0.5 g
C12_Witness ==
    /\ last.op = MassImpactCall
    /\ \E row \in last.rows :
          /\ row.total_positive_deviation_g = 5000
          /\ row.total_negative_deviation_g = 5000
          /\ row.total_mass_deviation_g = 0

\* C13: every comparable record whose bar weight is missing or zero is counted
\* in the returned mass-impact result of its assayer, as a 1000 g bar
C13_ZeroWeightIncluded ==
    (last.op = MassImpactCall /\ last.ret = "DataFrame") =>
        \A r \in ComparableRecords(assay_results, last.bench, last.days) :
            r.bar_weight_grams = 0 =>
                \E row \in last.rows :
                    /\ row.assayer_id = r.assayer_id
                    /\ row.sample_count =
                          Cardinality({c \in ComparableRecords(assay_results, last.bench, last.days)
                                          : c.assayer_id = r.assayer_id})

\* the prefix of a monetary amount under the page's convention: a positive
\* mass deviation (a loss) is shown with a minus sign, a negative one (a gain)
\* with a plus sign
LossIsMinus(amount) == IF amount > 0 THEN "-$" ELSE IF amount < 0 THEN "+$" ELSE "$"

\* C14: every financial-impact figure of a rendered Mass Impact page, the two
\* summary figures and the figure of each assayer in the detail table, shows a
\* loss with a minus sign and a gain with a plus sign
C14_OneSignConvention ==
    last.op = "mass_impact_page" =>
        /\ last.ret = LossIsMinus(last.arg)
        /\ last.pre = LossIsMinus(last.arg)
        /\ \A row \in last.rows : row.financial_impact = LossIsMinus(row.net_impact)

\* the series the claim describes: the assayer's values of col reduced to one
\* mean per calendar day, then the rolling mean of the given window over
\* those daily means
CalendarDaySeries(df, assayer, col, window) ==
    LET rows == AssayerRows(df, assayer)
        dates == SortValues({rows[i].test_date : i \in DOMAIN rows})
        daily == [i \in DOMAIN dates |->
                    [date |-> dates[i],
                     value |-> Mean(SelectSeq(rows, LAMBDA r : r.test_date = dates[i]), col)]]
        rolled == RollingMean(daily, "value", window)
    IN [i \in DOMAIN rolled |->
          [date |-> daily[i + window - 1].date, value |-> rolled[i]]]

\* the points of an assayer in a returned series, <<>> when it has none
PointsOf(result, assayer) ==
    IF \E tr \in result : tr.assayer_name = assayer
      THEN (CHOOSE tr \in result : tr.assayer_name = assayer).points
      ELSE <<>>

\* C15: the moving-average series that create_moving_average_chart and
\* analyze_trend_chart give for an assayer is the rolling mean, over the given
\* window, of that assayer's means per calendar day: one point per day
C15_DailyMeansThenRolling ==
    /\ last.op = "create_moving_average_chart" =>
          \A a \in TrendAssayerNames :
             LET points == PointsOf(last.rows, a)
             IN [i \in DOMAIN points |->
                   [date |-> DateOf(points[i].test_date), value |-> points[i].moving_avg]]
                  = CalendarDaySeries(last.pre, a, "deviation", last.arg)
    /\ last.op = "analyze_trend_chart" =>
          \A a \in TrendAssayerNames :
             LET points == PointsOf(last.rows, a)
                 series == CalendarDaySeries(last.pre, a, "percentage_deviation", last.arg)
             IN [i \in DOMAIN points |->
                   [date |-> points[i].date, value |-> points[i].ma_value]]
                  = [i \in DOMAIN series |->
                       [date |-> series[i].date,
                        value |-> RoundHalfEven(series[i].value, PercentUnit)]]

\* the reorderings of a DataFrame that exchange rows of the same day only
SameDayPermutations(df) ==
    {q \in [DOMAIN df -> DOMAIN df] :
        /\ \A i, j \in DOMAIN df : i # j => q[i] # q[j]
        /\ \A i \in DOMAIN df : df[q[i]].test_date = df[i].test_date}

\* C16: the series returned for a DataFrame is the series returned for every
\* reordering of it that exchanges samples of the same day
C16_SameDayOrderIrrelevant ==
    /\ last.op = "create_moving_average_chart" =>
          \A q \in SameDayPermutations(last.pre) :
             Traces([i \in DOMAIN last.pre |-> last.pre[q[i]]], last.arg) = last.rows
    /\ last.op = "analyze_trend_chart" =>
          \A q \in SameDayPermutations(last.pre) :
             TrendDataOf([i \in DOMAIN last.pre |-> last.pre[q[i]]], last.arg) = last.rows

\* a chart with a trace for an assayer whose DataFrame holds two samples of
\* one day with different deviations
C16_Witness ==
    /\ last.op = "create_moving_average_chart"
    /\ \E tr \in last.rows, i, j \in DOMAIN last.pre :
          /\ i < j
          /\ last.pre[i].assayer_name = tr.assayer_name
          /\ last.pre[j].assayer_name = tr.assayer_name
          /\ last.pre[i].test_date = last.pre[j].test_date
          /\ last.pre[i].deviation # last.pre[j].deviation

RecomputeCall == "update_trainee_certification_status"
AccuracyOf(evals) == {e \in evals : e.evaluation_type = "accuracy"}
ConsistencyOf(evals) == {e \in evals : e.evaluation_type = "consistency"}

\* the thresholds other than the sample count, on the evaluations of one type
MeetsThresholds(evals, th) ==
    /\ SumEvaluations(evals, "within_tolerance") * 100
          >= th.min_accuracy_percentage * Cardinality(evals)
    /\ Abs(SumEvaluations(evals, "deviation")) <= th.max_avg_deviation * Cardinality(evals)
    /\ \/ Cardinality(evals) <= 1
       \/ Cardinality(evals) * SumEvaluations(evals, "squared_deviation")
             - SumEvaluations(evals, "deviation") * SumEvaluations(evals, "deviation")
            <= th.max_std_deviation * th.max_std_deviation
                 * Cardinality(evals) * (Cardinality(evals) - 1)

\* a type passes: it has the minimum sample count and meets the thresholds
TypePasses(evals, th) ==
    /\ Cardinality(evals) >= th.min_samples
    /\ MeetsThresholds(evals, th)

\* C17: a recomputation yields Certified only if the accuracy evaluations it
\* read number at least the minimum sample count and meet the percentage, the
\* average-deviation and the standard-deviation threshold
C17_CertifiedOnlyIfAccuracyPasses ==
    (last.op = RecomputeCall /\ last.ret = "Certified") =>
        /\ Cardinality(AccuracyOf(last.rows)) >= last.pre.min_samples
        /\ MeetsThresholds(AccuracyOf(last.rows), last.pre)

\* a trainee certified on accuracy evaluations that are not all alike
C17_Witness ==
    /\ last.op = RecomputeCall
    /\ last.ret = "Certified"
    /\ \E tr \in trainees : tr.trainee_id = last.arg /\ tr.status = "Certified"
    /\ \E e1, e2 \in AccuracyOf(last.rows) : e1.deviation_ppt # e2.deviation_ppt

\* C18: a recomputation that read consistency evaluations yields Certified
\* only if the consistency evaluations themselves number at least the minimum
\* sample count and meet every threshold
C18_ConsistencyPassesOnItsOwn ==
    (last.op = RecomputeCall /\ last.ret = "Certified" /\ ConsistencyOf(last.rows) # {}) =>
        TypePasses(ConsistencyOf(last.rows), last.pre)

\* C19: without consistency evaluations the status is Certified when the
\* accuracy evaluations pass; with consistency evaluations it is Certified
\* exactly when both types pass
C19_AccuracyAloneOrBoth ==
    last.op = RecomputeCall =>
        /\ (ConsistencyOf(last.rows) = {} /\ TypePasses(AccuracyOf(last.rows), last.pre))
              => last.ret = "Certified"
        /\ ConsistencyOf(last.rows) # {} =>
              (last.ret = "Certified"
                 <=> /\ TypePasses(AccuracyOf(last.rows), last.pre)
                     /\ TypePasses(ConsistencyOf(last.rows), last.pre))

\* C20: a recomputation that read fewer accuracy evaluations than the minimum
\* sample count, or some but fewer consistency evaluations than that, yields
\* Pending
C20_InsufficientIsPending ==
    (/\ last.op = RecomputeCall
     /\ \/ Cardinality(AccuracyOf(last.rows)) < last.pre.min_samples
        \/ /\ ConsistencyOf(last.rows) # {}
           /\ Cardinality(ConsistencyOf(last.rows)) < last.pre.min_samples)
        => last.ret = "Pending"

\* the status that the evaluations now stored for a trainee and the thresholds
\* now applicable determine
DeterminedStatus(tr, evaluations, thresholds) ==
    LET evals == {e \in evaluations : e.trainee_id = tr.trainee_id}
        th == CHOOSE x \in thresholds : x.is_active = 1
    IN NewStatus(AccuracyOf(evals), ConsistencyOf(evals), ThresholdsFor(tr, th))

\* C21: when the recomputation made by an add_trainee_evaluation returns and
\* no other call is in progress, the stored status of the trainee is the one
\* determined by all evaluations stored for the trainee and the applicable
\* thresholds (while the thresholds have never been changed every
\* recomputation is made by an add_trainee_evaluation)
C21_StatusFromCompleteHistory ==
    [][\A s \in Sessions :
          (/\ pc[s] = "update_status_write"
           /\ \A o \in Sessions : pc'[o] = "idle"
           /\ Cardinality(certification_thresholds) = 1)
             => \A tr \in trainees' :
                   tr.trainee_id = loc[s].arg =>
                      tr.status = DeterminedStatus(tr, trainee_evaluations',
                                                   certification_thresholds')]_vars

\* C22: a certification_date that has been stamped is not changed by any
\* later step
C22_CertificationDateKept ==
    [][\A tr \in trainees :
          tr.certification_date # 0 =>
             \A n \in trainees' :
                n.trainee_id = tr.trainee_id =>
                   n.certification_date = tr.certification_date]_vars

\* a trainee certified on the first day whose status has fallen back after a
\* change of the thresholds
C22_Witness ==
    \E tr \in trainees :
       /\ tr.certification_date = Today
       /\ tr.status = "Needs More Training"
       /\ Cardinality(certification_thresholds) > 1
       /\ last.op = RecomputeCall
       /\ last.arg = tr.trainee_id

\* the rows that k further add_trainee_evaluation calls of one type with the
\* certified value as the measured value insert
FurtherEvaluations(tr, type, k) ==
    {EvaluationRow(MaxEvaluationId + (IF type = "accuracy" THEN 0 ELSE k) + i,
                   tr.trainee_id, 0,
                   IF Abs(0) <= tr.target_tolerance THEN 1 ELSE 0, type) : i \in 1..k}

\* the status recomputed after FurtherInserts further inserts of each type
Rescored(tr) ==
    DeterminedStatus(tr,
                     trainee_evaluations
                        \cup FurtherEvaluations(tr, "accuracy", FurtherInserts)
                        \cup FurtherEvaluations(tr, "consistency", FurtherInserts),
                     certification_thresholds)

\* C23 as stated: in every reachable state every trainee is Certified after
\* some further evaluation inserts
C23_NoStatusAbsorbing == \A tr \in trainees : Rescored(tr) = "Certified"

\* C23 amended: the same for every trainee whose minimum accuracy percentage
\* is below 100
C23_NoStatusAbsorbingBelow100 ==
    \A tr \in trainees : tr.min_accuracy_percentage < 100 => Rescored(tr) = "Certified"

\* a trainee with a minimum below 100 whose stored status is Needs More
\* Training and who is Certified after further inserts
C23_Witness ==
    \E tr \in trainees :
       /\ tr.min_accuracy_percentage < 100
       /\ tr.status = "Needs More Training"
       /\ last.op = RecomputeCall
       /\ last.ret = "Needs More Training"
       /\ Rescored(tr) = "Certified"

FallbackGenerators ==
    {FallbackGenerator(function) : function \in NarrativeFunctions}
       \cup {"generate_data_answer_fallback"}

\* the provider a module's narrative functions use
ProviderOf(module) ==
    CASE module \in {"ai_assistant", "openai_assistant"} -> "OpenAI"
      [] module = "claude_assistant" -> "Anthropic"
      [] module = "deepseek_assistant" -> "DeepSeek"

\* C24: a narrative function whose provider is unconfigured or whose request
\* raised returns a fallback generator's text, and a chat answer for which
\* every provider is unconfigured or raised does too
C24_FailureAnsweredByFallback ==
    /\ (last.op \in NarrativeFunctions /\ Request(ProviderOf(last.arg), last.pre) = "raises")
          => last.ret \in FallbackGenerators
    /\ (/\ last.op = "answer_data_query"
        /\ last.arg = "data"
        /\ \A provider \in ProviderNames : Request(provider, last.pre) = "raises")
          => last.ret \in FallbackGenerators

Position(provider) == CHOOSE i \in 1..3 : <<"OpenAI", "Anthropic", "DeepSeek">>[i] = provider
Called(provider) == \E i \in DOMAIN last.rows : last.rows[i] = provider
Succeeded(provider) == Called(provider) /\ last.pre.outcome[provider] = "ok"

\* C25: in a chat answer a provider is requested only if every provider of
\* higher priority (OpenAI before Anthropic before DeepSeek) is unconfigured
\* or was requested and raised; the answer is the response of the first
\* request that succeeded; the fallback generator answers only if no request
\* succeeded
C25_FixedProviderOrder ==
    last.op = "answer_data_query" =>
       /\ \A provider \in ProviderNames :
             Called(provider) =>
                \A higher \in ProviderNames :
                   Position(higher) < Position(provider) =>
                      \/ higher \notin last.pre.keys
                      \/ Called(higher) /\ last.pre.outcome[higher] = "raises"
       /\ \A provider \in ProviderNames :
             Succeeded(provider) =>
                /\ last.ret = provider
                /\ last.rows[Len(last.rows)] = provider
       /\ last.ret = "generate_data_answer_fallback" =>
             \A provider \in ProviderNames : ~Succeeded(provider)
       /\ last.arg = "data" =>
             \/ last.ret \in ProviderNames /\ Succeeded(last.ret)
             \/ last.ret = "generate_data_answer_fallback"

\* OpenAI raised, Anthropic answered, DeepSeek (configured) was not requested
C25_Witness ==
    /\ last.op = "answer_data_query"
    /\ last.rows = <<"OpenAI", "Anthropic">>
    /\ last.ret = "Anthropic"
    /\ "DeepSeek" \in last.pre.keys

\* C26: in every row of an inter-laboratory comparison the field
\* absolute_deviation is the absolute value of the external reading minus the
\* internal reading, so it is never negative
C26_InterlabAbsoluteDeviation ==
    last.op = "get_interlab_comparisons" =>
       \A row \in last.rows :
          /\ row.absolute_deviation =
                Abs(row.external_gold_content - row.internal_gold_content)
          /\ row.absolute_deviation >= 0

\* C30: at most one lab carries the benchmark flag, and after a
\* set_external_lab_benchmark(lab_id) that reported success the labs that carry
\* it are exactly the lab with that lab_id
C30_OneBenchmarkLab ==
    /\ Cardinality(BenchmarkLabs) <= 1
    /\ (last.op = "set_external_lab_benchmark" /\ last.ret = "True") =>
          /\ Cardinality(BenchmarkLabs) = 1
          /\ \A l \in BenchmarkLabs : l.lab_id = last.arg

\* the benchmark moved from one lab to another
C30_Witness ==
    /\ last.op = "set_external_lab_benchmark"
    /\ last.ret = "True"
    /\ last.pre = 1
    /\ \E l \in external_labs : l.lab_id # last.arg
    /\ \E l \in BenchmarkLabs : l.lab_id = last.arg

\* C27: in every reachable state every active benchmark row designates an
\* assayer that has a row in assayers with is_active = 1
C27_ActiveBenchmarkIsActiveAssayer ==
    \A b \in ActiveBenchmarks :
       \E a \in assayers : a.assayer_id = b.assayer_id /\ a.is_active = 1

\* C28: a call of add_assay_result leaves every reading stored before it as
\* it was: the row is still stored afterwards with the same result_id,
\* gold_content and bar_weight_grams
C28_AddKeepsStoredReadings ==
    [][(last' # last /\ last'.op = "add_assay_result") =>
          \A r \in assay_results :
             \E n \in assay_results' :
                /\ n.assayer_id = r.assayer_id
                /\ n.sample_id = r.sample_id
                /\ n.result_id = r.result_id
                /\ n.gold_content = r.gold_content
                /\ n.bar_weight_grams = r.bar_weight_grams]_vars

\* C29: in every reachable state an assayer has at most one active trainee
\* row, and add_trainee for an assayer that has one returns its trainee_id
ActiveTraineesOf(assayer_id) ==
    {tr \in trainees : tr.assayer_id = assayer_id /\ tr.is_active = 1}

C29_OneActiveTraineePerAssayer ==
    /\ \A a \in assayers : Cardinality(ActiveTraineesOf(a.assayer_id)) <= 1
    /\ (last.op = "add_trainee" /\ last.ret = "existing") =>
          \E tr \in trainees : tr.trainee_id = last.arg /\ tr.is_active = 1
====
